---------------------------- MODULE Spec2Model ----------------------------
(***************************************************************************)
(* go-mesh: frame synchronizer (internal/tcp), wire decoder and message   *)
(* interpreters (internal/meshtastic), and the client ingestion pipeline  *)
(* (bounded packet queue, statistics, node directory, subscriber          *)
(* fan-out).                                                               *)
(*                                                                         *)
(* Conventions.  A byte is an integer 0..255.  A Go string or []byte copy  *)
(* is a sequence of bytes.  A 64-bit word is kept as its ten base-128      *)
(* groups, least significant first (group 10 holds bit 63 only), because   *)
(* the varint reader builds it in exactly that shape; uint32 values are    *)
(* words whose bits 32..63 are zero.  Go offsets (type int) are integers;  *)
(* an offset whose magnitude exceeds every buffer is kept as Huge or       *)
(* -Huge, which preserves every comparison the code makes with it.         *)
(***************************************************************************)
EXTENDS Integers, Sequences, FiniteSets, TLC

VARIABLES
    stream,      \* bytes the TCP stream reader has read so far (history)
    heap,        \* backing arrays of the transports' receive buffers
    rxBuf,       \* Connection.rxBuf: a slice [arr, len, cap] into heap
    frames,      \* payloads processByte has handed to the handler (history)
    tpc,         \* the transport task: "run", "crashed" or "stuck"
    m,           \* the handleRawData call in progress (decode machine)
    packets,     \* Client.packets: the buffered channel
    nsub,        \* number of handleRawData calls made so far
    dropped,     \* packets dropped because the channel was full
    cpc,         \* position of the consumer (processPackets)
    cur,         \* the packet the consumer is processing
    stats,       \* Client.stats
    nodeDB,      \* Client.nodeDB
    subs,        \* Client.subscribers
    pending,     \* OnPacket goroutines started and not yet run
    delivered,   \* OnPacket calls that have run, as [sub, sn] (history)
    offered,     \* packets offered to the channel so far (history)
    dbDone,      \* packets for which updateNodeDB has returned (history)
    probe,       \* a direct call of a helper: its arguments and its result
    life         \* Client.started, whether Client.packets is closed, and
                 \* the goroutines Start has launched

vars == <<stream, heap, rxBuf, frames, tpc, m, packets, nsub, dropped,
          cpc, cur, stats, nodeDB, subs, pending, delivered, offered, dbDone,
          probe, life>>

-----------------------------------------------------------------------------
(* Bytes and 64-bit words *)

Byte == 0..255

Min(a, b) == IF a < b THEN a ELSE b

Zero64 == <<0, 0, 0, 0, 0, 0, 0, 0, 0, 0>>

\* 2^21: three base-128 groups
Small == 128 * 128 * 128

\* An offset beyond every buffer (saturated)
Huge == 512 * Small

Low21(v) == v[1] + 128 * v[2] + 16384 * v[3]

IsSmallNonNeg(v) == \A i \in 4..10 : v[i] = 0

IsSmallNeg(v) == v[10] = 1 /\ \A i \in 4..9 : v[i] = 127

\* n + int(v) in Go's wrapping int64 arithmetic, for a small n; results
\* outside (-Small, Small) + n are reported as Huge / -Huge.
AddInt(n, v) ==
    IF IsSmallNonNeg(v) THEN n + Low21(v)
    ELSE IF IsSmallNeg(v) THEN n + Low21(v) - Small
    ELSE IF v[10] = 0
         THEN \* int(v) is large and positive; the sum wraps past 2^63-1
              \* when 2^63 - int(v) <= n
              IF (\A i \in 4..9 : v[i] = 127) /\ Small - Low21(v) <= n
              THEN -Huge ELSE Huge
         ELSE \* int(v) is large and negative; the sum wraps below -2^63
              \* when the low 63 bits are less than -n
              IF (\A i \in 4..9 : v[i] = 0) /\ Low21(v) < -n
              THEN Huge ELSE -Huge

-----------------------------------------------------------------------------
(* Wire decoder primitives *)

\* The loop of readVarintAt: `current` is the 0-based index of the next
\* byte, k the number of groups already read (shift = 7k).
RECURSIVE VarintLoop(_, _, _, _)
VarintLoop(data, current, k, result) ==
    IF current < 0 \/ current >= Len(data) THEN <<Zero64, -1>>
    ELSE LET b == data[current + 1]
             \* result |= uint64(b&0x7F) << shift; at shift 63 only bit 0
             \* of the group survives
             r == [result EXCEPT ![k + 1] =
                      IF k = 9 THEN (b % 128) % 2 ELSE b % 128]
         IN  IF b < 128 THEN <<r, current + 1>>
             ELSE IF 7 * (k + 1) >= 64 THEN <<Zero64, -1>>
             ELSE VarintLoop(data, current + 1, k + 1, r)

\* Client.readVarintAt: <<value, next offset>>, or <<0, -1>>
readVarintAt(data, offset) == VarintLoop(data, offset, 0, Zero64)

\* readVarint of packet.go, the same loop
readVarint(data, offset) == VarintLoop(data, offset, 0, Zero64)

\* a skip that passes over one varint whatever the wire type
skipFieldPrefix(data, offset, wireType) == readVarintAt(data, offset)[2]

\* Client.skipField
skipField(data, offset, wireType) ==
    CASE wireType = 0 -> readVarintAt(data, offset)[2]
      [] wireType = 1 -> offset + 8
      [] wireType = 2 ->
            LET r == readVarintAt(data, offset)
            IN  IF r[2] = -1 THEN -1 ELSE AddInt(r[2], r[1])
      [] wireType = 5 -> offset + 4
      [] OTHER -> -1

\* skipPositionField of packet.go
skipPositionField(data, offset, wireType) ==
    CASE wireType = 0 -> readVarint(data, offset)[2]
      [] wireType = 1 -> offset + 8
      [] wireType = 2 ->
            LET r == readVarint(data, offset)
            IN  IF r[2] = -1 THEN -1 ELSE AddInt(r[2], r[1])
      [] wireType = 5 -> offset + 4
      [] OTHER -> -1

\* Connection.appendVarint, on a value given by its groups: the bytes
\* are the groups up to the highest non-zero one, all but the last with
\* the continuation bit set.
TopGroup(v) ==
    IF \A i \in 1..10 : v[i] = 0 THEN 1
    ELSE CHOOSE i \in 1..10 : v[i] # 0 /\ \A j \in (i + 1)..10 : v[j] = 0

\* an encoder that sets no continuation bit
appendVarintPlain(data, value) ==
    data \o [i \in 1..TopGroup(value) |-> value[i]]

appendVarint(data, value) ==
    data \o [i \in 1..TopGroup(value) |->
                IF i < TopGroup(value) THEN value[i] + 128 ELSE value[i]]

\* uint32(v), uint8(v): truncations of a 64-bit word
U32(v) == <<v[1], v[2], v[3], v[4], v[5] % 16, 0, 0, 0, 0, 0>>

U8(v) == v[1] + 128 * (v[2] % 2)

\* binary.LittleEndian.Uint32 / Uint64 of 4 / 8 bytes, as a word
Pow2(n) == IF n = 0 THEN 1 ELSE IF n = 1 THEN 2 ELSE IF n = 2 THEN 4
           ELSE IF n = 3 THEN 8 ELSE IF n = 4 THEN 16 ELSE IF n = 5 THEN 32
           ELSE IF n = 6 THEN 64 ELSE 128

BitAt(b, i) == IF i \div 8 < Len(b) THEN (b[(i \div 8) + 1] \div Pow2(i % 8)) % 2 ELSE 0

LEWord(b) ==
    [k \in 1..10 |->
        IF k = 10 THEN BitAt(b, 63)
        ELSE BitAt(b, 7 * (k - 1)) + 2 * BitAt(b, 7 * (k - 1) + 1)
             + 4 * BitAt(b, 7 * (k - 1) + 2) + 8 * BitAt(b, 7 * (k - 1) + 3)
             + 16 * BitAt(b, 7 * (k - 1) + 4) + 32 * BitAt(b, 7 * (k - 1) + 5)
             + 64 * BitAt(b, 7 * (k - 1) + 6)]

\* A small natural number as a word
W(n) == <<n % 128, (n \div 128) % 128, (n \div 16384) % 128, 0, 0, 0, 0, 0, 0, 0>>

Broadcast == <<127, 127, 127, 127, 15, 0, 0, 0, 0, 0>>   \* 0xFFFFFFFF

-----------------------------------------------------------------------------
(* Packets *)

\* A span of the chunk being decoded: 0-based [lo, hi); NoSpan is a nil slice
NoSpan == [lo |-> -1, hi |-> -1]

NilData == [kind |-> "nil", id |-> <<>>, long |-> <<>>, short |-> <<>>,
            text |-> <<>>, hwType |-> Zero64, mask |-> Zero64, value |-> Zero64]

\* The zero Packet with RxTime = time.Now() and Raw = data
NewPacket(now) ==
    [ID |-> Zero64, From |-> Zero64, To |-> Zero64, Type |-> "UNKNOWN",
     Channel |-> 0, HopCount |-> 0, HopLimit |-> 0, WantAck |-> FALSE,
     Priority |-> 0, RxTime |-> [clock |-> now, unix |-> Zero64],
     RxSNR |-> Zero64, RxRSSI |-> Zero64,
     Payload |-> NoSpan, DecodedData |-> NilData, raw |-> "data",
     path |-> ""]

\* NodeInfo / TextData values stored in Packet.DecodedData
NodeInfoData(id, long, short) ==
    [NilData EXCEPT !.kind = "NodeInfo", !.id = id, !.long = long, !.short = short]

UserDataOf(loc) ==
    [NilData EXCEPT !.kind = "UserData", !.id = loc.id, !.long = loc.long,
                    !.short = loc.short]

TextDataOf(t) == [NilData EXCEPT !.kind = "Text", !.text = t]

\* ASCII of a few fixed strings of the source
StrLOCAL_DEVICE == <<76, 79, 67, 65, 76, 95, 68, 69, 86, 73, 67, 69>>
StrMyDeviceInfo == <<77, 121, 32, 68, 101, 118, 105, 99, 101, 32, 73, 110, 102, 111>>
StrMINE == <<77, 73, 78, 69>>
StrLogRecord == <<91, 76, 79, 71, 93, 32, 68, 101, 118, 105, 99, 101, 32, 108,
                  111, 103, 32, 114, 101, 99, 111, 114, 100>>
StrNodeInfoData == <<78, 111, 100, 101, 73, 110, 102, 111, 32, 100, 97, 116, 97, 58, 32>>

HexDigit(n) == IF n < 10 THEN 48 + n ELSE 87 + n      \* lower case, %x
HexDigitUpper(n) == IF n < 10 THEN 48 + n ELSE 55 + n  \* %X

\* The i-th nibble (0 = least significant) of a 32-bit word
Nibble(v, i) ==
    LET bit(j) == (v[(j \div 7) + 1] \div Pow2(j % 7)) % 2
    IN  bit(4 * i) + 2 * bit(4 * i + 1) + 4 * bit(4 * i + 2) + 8 * bit(4 * i + 3)

\* fmt.Sprintf("!%08x", nodeID)
FormatNodeID(v) == <<33>> \o [i \in 1..8 |-> HexDigit(Nibble(v, 8 - i))]

\* fmt.Sprintf("%X", bytes)
RECURSIVE HexUpper(_)
HexUpper(b) ==
    IF b = <<>> THEN <<>>
    ELSE <<HexDigitUpper(b[1] \div 16), HexDigitUpper(b[1] % 16)>> \o HexUpper(Tail(b))

-----------------------------------------------------------------------------
(* Message interpreters.  Each interpreter is a loop over the fields of   *)
(* its slice; one loop iteration is one step of the decode machine.  A    *)
(* frame is one activation: fn (the function), [lo, hi) (its slice, in    *)
(* chunk coordinates), off (its local `offset`), loc (its other locals)   *)
(* and wait (where it resumes when the function it called returns).       *)

NoCall == [fn |-> "", lo |-> 0, hi |-> 0, wait |-> ""]

Call(fn, span, wait) == [fn |-> fn, lo |-> span.lo, hi |-> span.hi, wait |-> wait]

LocInit == [portnum |-> Zero64, pay |-> NoSpan, id |-> <<>>, long |-> <<>>,
            short |-> <<>>, hwType |-> Zero64, mask |-> Zero64,
            value |-> Zero64, ptype |-> "UNKNOWN"]

\* The outcome of one iteration: the new offset, packet and locals, a call
\* to make, or the way the function leaves ("err", "panic")
Res(off, pkt, loc) ==
    [off |-> off, pkt |-> pkt, loc |-> loc, call |-> NoCall, exit |-> ""]

Leave(how, pkt, loc) ==
    [off |-> 0, pkt |-> pkt, loc |-> loc, call |-> NoCall, exit |-> how]

\* length, newOffset := readVarint(data, offset) and what the code derives
\* from the pair: sum = newOffset + int(length), inb = the bounds test
\* `newOffset != -1 && newOffset+int(length) <= len(data)`, bad = the slice
\* data[newOffset : sum] is then out of range (high < low)
LenDelim(r, n) ==
    LET sum == AddInt(r[2], r[1])
    IN  [new |-> r[2], sum |-> sum,
         inb |-> r[2] # -1 /\ sum <= n,
         bad |-> r[2] # -1 /\ sum <= n /\ sum < r[2]]

\* One iteration of Client.parseFromRadioMessage (field fn, wire type wt,
\* o = offset after the tag byte)
FromRadioField(f, data, pkt, fn, wt, o) ==
    LET ld   == LenDelim(readVarintAt(data, o), Len(data))
        span == [lo |-> f.lo + ld.new, hi |-> f.lo + ld.sum]
        skip == Res(skipField(data, o, wt), pkt, f.loc)
        synth(t, dd) == [pkt EXCEPT !.Type = t, !.From = Zero64,
                                    !.To = Broadcast, !.DecodedData = dd]
    IN  CASE fn = 2 ->
               IF wt # 2 THEN skip
               ELSE IF ld.new = -1 \/ ld.sum > Len(data) THEN Leave("err", pkt, f.loc)
               ELSE IF ld.bad THEN Leave("panic", pkt, f.loc)
               ELSE [Res(ld.sum, pkt, f.loc) EXCEPT !.call = Call("Mesh", span, "")]
          [] fn = 3 ->
               IF wt # 2 THEN skip
               ELSE IF ld.bad THEN Leave("panic", pkt, f.loc)
               ELSE IF ld.inb
                    THEN Res(ld.sum, synth("NODE_INFO",
                             NodeInfoData(StrLOCAL_DEVICE, StrMyDeviceInfo, StrMINE)), f.loc)
                    ELSE Res(ld.sum, pkt, f.loc)
          [] fn = 4 ->
               IF wt # 2 THEN skip
               ELSE IF ld.bad THEN Leave("panic", pkt, f.loc)
               ELSE IF ld.inb
                    THEN [Res(ld.sum, pkt, f.loc) EXCEPT
                             !.call = Call("NodeInfo", span, "env4")]
                    ELSE Res(ld.sum, pkt, f.loc)
          [] fn = 5 ->
               IF wt # 2 THEN skip
               ELSE IF ld.bad THEN Leave("panic", pkt, f.loc)
               ELSE IF ld.inb
                    THEN Res(ld.sum, [pkt EXCEPT !.Type = "ADMIN", !.From = Zero64,
                                                 !.To = Broadcast], f.loc)
                    ELSE Res(ld.sum, pkt, f.loc)
          [] fn = 6 ->
               IF wt # 2 THEN skip
               ELSE IF ld.bad THEN Leave("panic", pkt, f.loc)
               ELSE IF ld.inb
                    THEN Res(ld.sum, synth("TEXT", TextDataOf(StrLogRecord)), f.loc)
                    ELSE Res(ld.sum, pkt, f.loc)
          [] OTHER -> skip

\* One iteration of Client.parseMeshPacket
MeshPacketField(f, data, pkt, fn, wt, o) ==
    LET n    == Len(data)
        ld   == LenDelim(readVarintAt(data, o), n)
        span == [lo |-> f.lo + ld.new, hi |-> f.lo + ld.sum]
        skip == Res(skipField(data, o, wt), pkt, f.loc)
        four == IF o + 4 <= n THEN SubSeq(data, o + 1, o + 4) ELSE <<>>
        \* `if offset+4 <= len(data) { <assign>; offset += 4 } else { offset = len(data) }`
        fixed32(p) == IF o + 4 <= n THEN Res(o + 4, p, f.loc) ELSE Res(n, pkt, f.loc)
        \* `if wireType == 0 { value, newOffset := readVarintAt(...); if newOffset
        \*  != -1 { <assign> }; offset = newOffset } else { offset = skipField }`
        vf(Set(_)) == IF wt = 0
                      THEN LET r == readVarintAt(data, o)
                           IN  Res(r[2], IF r[2] # -1 THEN Set(r[1]) ELSE pkt, f.loc)
                      ELSE skip
    IN  CASE fn = 1 ->
               IF wt = 5 THEN fixed32([pkt EXCEPT !.From = LEWord(four)])
               ELSE vf(LAMBDA v : [pkt EXCEPT !.From = U32(v)])
          [] fn = 2 ->
               IF wt = 5 THEN fixed32([pkt EXCEPT !.To = LEWord(four)])
               ELSE vf(LAMBDA v : [pkt EXCEPT !.To = U32(v)])
          [] fn = 3 -> vf(LAMBDA v : [pkt EXCEPT !.Channel = U8(v)])
          [] fn = 6 -> vf(LAMBDA v : [pkt EXCEPT !.ID = U32(v)])
          [] fn = 7 ->
               IF wt = 1
               THEN Res(o + 8,
                        IF o + 8 <= n
                        THEN [pkt EXCEPT !.RxTime =
                                 [clock |-> 0, unix |-> LEWord(SubSeq(data, o + 1, o + 8))]]
                        ELSE pkt, f.loc)
               ELSE vf(LAMBDA v : [pkt EXCEPT !.RxTime = [clock |-> 0, unix |-> v]])
          [] fn = 8 ->
               IF wt = 5 THEN fixed32([pkt EXCEPT !.RxSNR = LEWord(four)]) ELSE skip
          [] fn = 9 -> vf(LAMBDA v : [pkt EXCEPT !.HopLimit = U8(v)])
          [] fn = 10 -> vf(LAMBDA v : [pkt EXCEPT !.WantAck = (v # Zero64)])
          [] fn = 11 -> vf(LAMBDA v : [pkt EXCEPT !.Priority = U8(v)])
          [] fn = 12 -> vf(LAMBDA v : [pkt EXCEPT !.RxRSSI = U32(v)])
          [] fn \in {14, 15, 17} -> vf(LAMBDA v : pkt)
          [] fn = 16 ->
               IF wt # 2 THEN skip
               ELSE IF ld.bad THEN Leave("panic", pkt, f.loc)
               ELSE Res(ld.sum, pkt, f.loc)
          [] fn = 4 ->
               IF wt # 2 THEN skip
               ELSE IF ld.bad THEN Leave("panic", pkt, f.loc)
               ELSE IF ld.inb
                    THEN [Res(ld.sum, pkt, f.loc) EXCEPT
                             !.call = Call("Data", span, "mesh4")]
                    ELSE Res(ld.sum, pkt, f.loc)
          [] OTHER -> skip

\* One iteration of Client.parseDataMessage
DataField(f, data, pkt, fn, wt, o) ==
    LET ld   == LenDelim(readVarintAt(data, o), Len(data))
        span == [lo |-> f.lo + ld.new, hi |-> f.lo + ld.sum]
        skip == Res(skipField(data, o, wt), pkt, f.loc)
    IN  CASE fn = 1 ->
               IF wt = 0
               THEN LET r == readVarintAt(data, o)
                    IN  Res(r[2], pkt,
                            IF r[2] # -1 THEN [f.loc EXCEPT !.portnum = U32(r[1])]
                            ELSE f.loc)
               ELSE skip
          [] fn = 2 ->
               IF wt # 2 THEN skip
               ELSE IF ld.bad THEN Leave("panic", pkt, f.loc)
               ELSE IF ld.inb THEN Res(ld.sum, pkt, [f.loc EXCEPT !.pay = span])
               ELSE Res(ld.sum, pkt, f.loc)
          [] OTHER -> skip

\* One iteration of Client.parseNodeInfoData
NodeInfoField(f, data, pkt, fn, wt, o) ==
    LET ld   == LenDelim(readVarintAt(data, o), Len(data))
        span == [lo |-> f.lo + ld.new, hi |-> f.lo + ld.sum]
        skip == Res(skipField(data, o, wt), pkt, f.loc)
    IN  CASE fn = 1 ->
               IF wt = 0
               THEN LET r == readVarintAt(data, o)
                    IN  Res(r[2], pkt,
                            IF r[2] # -1
                            THEN [f.loc EXCEPT !.id = FormatNodeID(U32(r[1]))]
                            ELSE f.loc)
               ELSE skip
          [] fn = 2 ->
               IF wt # 2 THEN skip
               ELSE IF ld.bad THEN Leave("panic", pkt, f.loc)
               ELSE IF ld.inb
                    THEN [Res(ld.sum, pkt, f.loc) EXCEPT
                             !.call = Call("User", span, "ni2")]
                    ELSE Res(ld.sum, pkt, f.loc)
          [] fn = 3 -> IF wt = 2 THEN Res(ld.sum, pkt, f.loc) ELSE skip
          [] fn \in {4, 5} -> IF wt = 5 THEN Res(o + 4, pkt, f.loc) ELSE skip
          [] OTHER -> skip

\* One iteration of parseUserMessage (packet.go)
UserField(f, data, pkt, fn, wt, o) ==
    LET n    == Len(data)
        ld   == LenDelim(readVarint(data, o), n)
        skip == Res(skipPositionField(data, o, wt), pkt, f.loc)
        str  == IF ld.inb /\ ~ld.bad THEN SubSeq(data, ld.new + 1, ld.sum) ELSE <<>>
        \* `if newOffset != -1 && newOffset+int(length) <= len(data) {
        \*    <assign>; offset = newOffset + int(length) } else { offset = len(data) }`
        strField(l) == IF ld.bad THEN Leave("panic", pkt, f.loc)
                       ELSE IF ld.inb THEN Res(ld.sum, pkt, l)
                       ELSE Res(n, pkt, f.loc)
    IN  CASE fn = 1 -> IF wt = 2 THEN strField([f.loc EXCEPT !.id = str]) ELSE skip
          [] fn = 2 -> IF wt = 2 THEN strField([f.loc EXCEPT !.long = str]) ELSE skip
          [] fn = 3 -> IF wt = 2 THEN strField([f.loc EXCEPT !.short = str]) ELSE skip
          [] OTHER -> skip

\* One iteration of parseRemoteHardwareMessage (packet.go)
RemoteHardwareField(f, data, pkt, fn, wt, o) ==
    LET skip == Res(skipPositionField(data, o, wt), pkt, f.loc)
        vf(l(_)) == IF wt = 0
                    THEN LET r == readVarint(data, o)
                         IN  Res(r[2], pkt, IF r[2] # -1 THEN l(r[1]) ELSE f.loc)
                    ELSE skip
    IN  CASE fn = 1 -> vf(LAMBDA v : [f.loc EXCEPT !.hwType = U32(v)])
          [] fn = 2 -> vf(LAMBDA v : [f.loc EXCEPT !.mask = v])
          [] fn = 3 -> vf(LAMBDA v : [f.loc EXCEPT !.value = v])
          [] OTHER -> skip

-----------------------------------------------------------------------------
(* Packet type resolution *)

\* a table that sends every port to the text type
PortNumToText(port) == "TEXT"

\* PortNumToPacketType: the table, and PacketTypeUnknown for a port that
\* is not in it (Client.parseDataMessage)
PortNumToPacketType(port) ==
    LET p == IF IsSmallNonNeg(port) THEN Low21(port) ELSE -1
    IN  CASE p \in {1, 7, 11} -> "TEXT"
          [] p = 2 -> "REMOTE_HARDWARE"
          [] p \in {3, 8} -> "POSITION"
          [] p = 4 -> "NODE_INFO"
          [] p = 5 -> "ROUTING"
          [] p = 6 -> "ADMIN"
          [] p = 10 -> "DETECTION_SENSOR"
          [] p \in {32, 224, 256} -> "REPLY_APP"
          [] p = 33 -> "IP_TUNNEL_APP"
          [] p = 64 -> "SERIAL_APP"
          [] p = 65 -> "STORE_FORWARD_APP"
          [] p = 66 -> "RANGE_TEST"
          [] p = 67 -> "TELEMETRY"
          [] p = 68 -> "ZPS_APP"
          [] p = 69 -> "SIMULATOR_APP"
          [] p = 70 -> "TRACEROUTE_APP"
          [] p = 71 -> "NEIGHBOR_INFO"
          [] OTHER -> "UNKNOWN"

\* proto.Unmarshal's walk over the top-level fields of a message: the
\* sequence of <<field number, wire type, lo, hi>> of its fields, or
\* <<"invalid">> as the only element when the bytes are not well-formed
\* wire format (truncated field, wire type 3, 4, 6 or 7, field number 0).
RECURSIVE ProtoFields(_, _)
ProtoFields(data, off) ==
    IF off >= Len(data) THEN <<>>
    ELSE LET t  == readVarint(data, off)
             tg == IF t[2] # -1 /\ IsSmallNonNeg(t[1]) THEN Low21(t[1]) ELSE -1
             fn == tg \div 8
             wt == tg % 8
             o  == t[2]
             v  == readVarint(data, o)
             e  == CASE wt = 0 -> v[2]
                     [] wt = 1 -> IF o + 8 <= Len(data) THEN o + 8 ELSE -1
                     [] wt = 5 -> IF o + 4 <= Len(data) THEN o + 4 ELSE -1
                     [] wt = 2 -> IF v[2] # -1 /\ IsSmallNonNeg(v[1])
                                     /\ v[2] + Low21(v[1]) <= Len(data)
                                  THEN v[2] + Low21(v[1]) ELSE -1
                     [] OTHER -> -1
             lo == IF wt = 2 THEN v[2] ELSE o
         IN  IF tg < 8 \/ e = -1 THEN << <<"invalid">> >>
             ELSE LET rest == ProtoFields(data, e)
                  IN  IF rest # <<>> /\ rest[1] = <<"invalid">> THEN rest
                      ELSE << <<fn, wt, lo, e>> >> \o rest

ProtoValid(data) ==
    LET fs == ProtoFields(data, 0) IN fs = <<>> \/ fs[1] # <<"invalid">>

ProtoHas(data, fn, wt) ==
    LET fs == ProtoFields(data, 0)
    IN  \E i \in 1..Len(fs) : fs[i] # <<"invalid">> /\ fs[i][1] = fn /\ fs[i][2] = wt

\* proto.Unmarshal(payload, &Position{}) == nil with latitude_i (1,
\* sfixed32), longitude_i (2, sfixed32) or altitude (3, int32) present
IsPositionMessage(data) ==
    ProtoValid(data)
    /\ (ProtoHas(data, 1, 5) \/ ProtoHas(data, 2, 5) \/ ProtoHas(data, 3, 0))

\* proto.Unmarshal(payload, &Telemetry{}) == nil with device_metrics (2),
\* environment_metrics (3) or air_quality_metrics (4) present; the
\* sub-message bytes must be well-formed too
IsTelemetryMessage(data) ==
    LET fs == ProtoFields(data, 0)
    IN  /\ ProtoValid(data)
        /\ \A i \in 1..Len(fs) :
               (fs[i][1] \in {2, 3, 4, 5, 6, 7} /\ fs[i][2] = 2)
                   => ProtoValid(SubSeq(data, fs[i][3] + 1, fs[i][4]))
        /\ \E i \in 1..Len(fs) : fs[i][1] \in {2, 3, 4} /\ fs[i][2] = 2

\* strings.Contains on byte strings
Contains(s, sub) ==
    \E i \in 0..(Len(s) - Len(sub)) : SubSeq(s, i + 1, i + Len(sub)) = sub

\* strings.ToLower, on the ASCII letters
ToLower(s) == [i \in 1..Len(s) |-> IF s[i] >= 65 /\ s[i] <= 90 THEN s[i] + 32 ELSE s[i]]

\* keywords of containsTelemetryKeywords
TelemetryKeywords ==
    {
     <<98, 97, 116, 116, 101, 114, 121>>,   \* battery
     <<118, 111, 108, 116, 97, 103, 101>>,   \* voltage
     <<99, 117, 114, 114, 101, 110, 116>>,   \* current
     <<116, 101, 109, 112, 101, 114, 97, 116, 117, 114, 101>>,   \* temperature
     <<104, 117, 109, 105, 100, 105, 116, 121>>,   \* humidity
     <<112, 114, 101, 115, 115, 117, 114, 101>>,   \* pressure
     <<116, 101, 108, 101, 109, 101, 116, 114, 121>>,   \* telemetry
     <<115, 101, 110, 115, 111, 114>>}   \* sensor

\* keywords of containsPositionKeywords
PositionKeywords ==
    {
     <<108, 97, 116>>,   \* lat
     <<108, 111, 110>>,   \* lon
     <<97, 108, 116, 105, 116, 117, 100, 101>>,   \* altitude
     <<112, 111, 115, 105, 116, 105, 111, 110>>,   \* position
     <<103, 112, 115>>,   \* gps
     <<99, 111, 111, 114, 100, 115>>,   \* coords
     <<108, 111, 99, 97, 116, 105, 111, 110>>}   \* location

containsTelemetryKeywords(payload) ==
    \E k \in TelemetryKeywords : Contains(ToLower(payload), k)

containsPositionKeywords(payload) ==
    \E k \in PositionKeywords :
        Contains(ToLower(payload), k)

\* The tag-byte scan of inferPacketType: the type chosen by the first of
\* the first ten bytes that is one of the indicator bytes, or "" if none
RECURSIVE TagScan(_, _)
TagScan(payload, i) ==
    IF i >= Len(payload) \/ i >= 10 THEN ""
    ELSE LET b == payload[i + 1]
         IN  CASE b = 13 -> "POSITION"
               [] b = 10 -> "TEXT"
               [] b \in {8, 16, 24} -> "TELEMETRY"
               [] b = 18 -> "NODE_INFO"
               [] OTHER -> TagScan(payload, i + 1)

IsPrintable(b) == (b >= 32 /\ b <= 126) \/ b \in {9, 10, 13}

\* an inferPacketType without the scan for tag bytes
InferTailNoScan(payload) ==
    LET printable == Cardinality({i \in 1..Len(payload) : IsPrintable(payload[i])})
    IN  IF Len(payload) > 10 /\ payload[1] = 123 THEN "TEXT"
        ELSE IF containsTelemetryKeywords(payload) THEN "TELEMETRY"
        ELSE IF containsPositionKeywords(payload) THEN "POSITION"
        ELSE IF Len(payload) > 0 /\ 10 * printable > 7 * Len(payload) THEN "TEXT"
        ELSE "UNKNOWN"

\* inferPacketType after its three structured attempts failed
InferTail(payload) ==
    LET printable == Cardinality({i \in 1..Len(payload) : IsPrintable(payload[i])})
    IN  IF TagScan(payload, 0) # "" THEN TagScan(payload, 0)
        ELSE IF Len(payload) > 10 /\ payload[1] = 123 THEN "TEXT"
        ELSE IF containsTelemetryKeywords(payload) THEN "TELEMETRY"
        ELSE IF containsPositionKeywords(payload) THEN "POSITION"
        \* float64(printableCount)/float64(len(payload)) > 0.7
        ELSE IF Len(payload) > 0 /\ 10 * printable > 7 * Len(payload) THEN "TEXT"
        ELSE "UNKNOWN"

\* decodePayload for the types it decodes without a hand-written loop
RECURSIVE UntilNul(_)
UntilNul(b) == IF b = <<>> \/ b[1] = 0 THEN <<>> ELSE <<b[1]>> \o UntilNul(Tail(b))

DecodeDirect(ptype, payload) ==
    CASE ptype = "TEXT" -> TextDataOf(UntilNul(payload))
      [] ptype = "POSITION" ->
            [NilData EXCEPT !.kind = IF ProtoValid(payload) THEN "Position" ELSE "nilPosition"]
      [] ptype = "TELEMETRY" ->
            [NilData EXCEPT !.kind = IF ProtoValid(payload) THEN "Telemetry" ELSE "nilTelemetry"]
      [] OTHER -> NilData

\* The function decodePayload calls for the types it decodes with a loop
DecodeLoop(ptype) ==
    CASE ptype = "NODE_INFO" -> "User"
      [] ptype = "REMOTE_HARDWARE" -> "RemoteHw"
      [] OTHER -> ""

-----------------------------------------------------------------------------
(* The decode machine: the call stack of one handleRawData call.          *)
(* mm.B is the chunk, mm.stack the activations (innermost last), mm.rv     *)
(* the value the last return delivered, mm.pkt the Packet under            *)
(* construction, mm.phase the decode path being attempted, mm.out the      *)
(* packets offered to the queue, mm.tried the paths attempted so far.      *)

Frame(fn, lo, hi) ==
    [fn |-> fn, lo |-> lo, hi |-> hi, off |-> 0, wait |-> "",
     arg |-> NoSpan, loc |-> LocInit]

RvOk == [err |-> FALSE, dd |-> NilData, ptype |-> "UNKNOWN"]
RvErr == [err |-> TRUE, dd |-> NilData, ptype |-> "UNKNOWN"]
RvData(dd) == [err |-> FALSE, dd |-> dd, ptype |-> "UNKNOWN"]
RvType(t) == [err |-> FALSE, dd |-> NilData, ptype |-> t]

Top(mm) == mm.stack[Len(mm.stack)]

SetTop(mm, f) == [mm EXCEPT !.stack[Len(mm.stack)] = f]

Pop(mm) == [mm EXCEPT !.stack = SubSeq(mm.stack, 1, Len(mm.stack) - 1)]

Push(mm, f) == [mm EXCEPT !.stack = Append(mm.stack, f)]

\* The bytes of a span of the chunk
Bytes(B, span) == SubSeq(B, span.lo + 1, span.hi)

FData(mm, f) == SubSeq(mm.B, f.lo + 1, f.hi)

LoopFns == {"FromRadio", "Mesh", "Data", "NodeInfo", "User", "RemoteHw"}

\* The `len(data) < k` guard at the head of each interpreter
MinLen(fn) ==
    CASE fn \in {"FromRadio", "Mesh", "NodeInfo"} -> 4
      [] fn \in {"Data", "User", "RemoteHw"} -> 2
      [] OTHER -> 0

\* ... and what the interpreter returns when the guard fails
ShortRv(fn) == IF fn \in {"FromRadio", "Mesh", "Data"} THEN RvErr ELSE RvOk

\* The caller (top of stack, already updated to f) calls c: the callee's
\* activation is pushed, or, when its length guard fails, the call has
\* already returned
DoCall(mm, f, c, ptype) ==
    LET caller == [f EXCEPT !.wait = c.wait, !.arg = [lo |-> c.lo, hi |-> c.hi]]
        callee == [Frame(c.fn, c.lo, c.hi) EXCEPT !.loc.ptype = ptype]
    IN  IF c.hi - c.lo < MinLen(c.fn)
        THEN [SetTop(mm, caller) EXCEPT !.rv = ShortRv(c.fn)]
        ELSE Push(SetTop(mm, caller), callee)

\* an offer that sends the packet a second time
OfferTwice(mm, pkt, path) ==
    [mm EXCEPT !.st = "returned", !.stack = <<>>, !.phase = "done",
               !.out = mm.out \o <<[pkt EXCEPT !.path = path],
                                   [pkt EXCEPT !.path = path]>>]

\* The packet is offered to Client.packets (the select/default of
\* handleRawData) and handleRawData returns
Offer(mm, pkt, path) ==
    [mm EXCEPT !.st = "returned", !.stack = <<>>, !.phase = "done",
               !.out = Append(mm.out, [pkt EXCEPT !.path = path])]

\* a handleRawData that goes on to the text path when the envelope fails
ReturnSkipsLegacy(mm, rv) ==
    IF Len(mm.stack) > 1 THEN [Pop(mm) EXCEPT !.rv = rv]
    ELSE IF rv.err THEN [mm EXCEPT !.stack = <<>>, !.rv = rv, !.phase = "text"]
    ELSE Offer(mm, mm.pkt, IF Top(mm).fn = "FromRadio" THEN "envelope" ELSE "legacy")

\* A function returns rv.  The root activations are parseFromRadioMessage
\* and ParseRawPacket, whose results handleRawData inspects.
Return(mm, rv) ==
    LET f == Top(mm)
    IN  IF Len(mm.stack) > 1 THEN [Pop(mm) EXCEPT !.rv = rv]
        ELSE IF rv.err THEN [mm EXCEPT !.stack = <<>>, !.rv = rv, !.phase =
                                IF f.fn = "FromRadio" THEN "legacy" ELSE "text"]
        ELSE Offer(mm, mm.pkt, IF f.fn = "FromRadio" THEN "envelope" ELSE "legacy")

Panic(mm) == [mm EXCEPT !.st = "panic"]

\* The statements after the loop of each interpreter
Epilogue(mm, f) ==
    CASE f.fn = "FromRadio" ->
            \* packet.Type == 0 is already PacketTypeUnknown
            Return([mm EXCEPT !.pkt.To = IF mm.pkt.To = Zero64 THEN Broadcast
                                          ELSE mm.pkt.To], RvOk)
      [] f.fn = "Mesh" -> Return(mm, RvOk)
      [] f.fn = "Data" ->
            LET t == PortNumToPacketType(f.loc.portnum)
            IN  DoCall([mm EXCEPT !.pkt.Type = t, !.pkt.Payload = f.loc.pay], f,
                       Call("Decode", f.loc.pay, "datad"), t)
      [] f.fn = "NodeInfo" ->
            Return(mm, IF f.loc.id # <<>> \/ f.loc.long # <<>> \/ f.loc.short # <<>>
                       THEN RvData(NodeInfoData(f.loc.id, f.loc.long, f.loc.short))
                       ELSE RvOk)
      [] f.fn = "User" -> Return(mm, RvData(UserDataOf(f.loc)))
      [] f.fn = "RemoteHw" ->
            Return(mm, RvData([NilData EXCEPT !.kind = "RemoteHardware",
                                  !.hwType = f.loc.hwType, !.mask = f.loc.mask,
                                  !.value = f.loc.value]))

Field(f, data, pkt, fn, wt, o) ==
    CASE f.fn = "FromRadio" -> FromRadioField(f, data, pkt, fn, wt, o)
      [] f.fn = "Mesh" -> MeshPacketField(f, data, pkt, fn, wt, o)
      [] f.fn = "Data" -> DataField(f, data, pkt, fn, wt, o)
      [] f.fn = "NodeInfo" -> NodeInfoField(f, data, pkt, fn, wt, o)
      [] f.fn = "User" -> UserField(f, data, pkt, fn, wt, o)
      [] f.fn = "RemoteHw" -> RemoteHardwareField(f, data, pkt, fn, wt, o)

\* The second half of a loop iteration: r is what the switch did
AfterField(mm, f, r) ==
    IF r.exit = "panic" THEN Panic(mm)
    ELSE IF r.exit = "err" THEN Return(mm, RvErr)
    ELSE IF r.call # NoCall
         THEN DoCall([mm EXCEPT !.pkt = r.pkt],
                     [f EXCEPT !.off = r.off, !.loc = r.loc], r.call, "UNKNOWN")
    ELSE IF r.off = -1
         THEN IF f.fn \in {"FromRadio", "Mesh", "Data"}
              THEN Return([mm EXCEPT !.pkt = r.pkt], RvErr)
              ELSE Epilogue([mm EXCEPT !.pkt = r.pkt],
                            [f EXCEPT !.off = r.off, !.loc = r.loc])
    ELSE SetTop([mm EXCEPT !.pkt = r.pkt], [f EXCEPT !.off = r.off, !.loc = r.loc])

\* One pass through `for offset < len(data) { ... }` of the interpreter f
\* on top of the stack, whose slice is data: the loop test, the tag byte,
\* the switch, and the `offset == -1` test that follows it
LoopBody(mm, f, data) ==
    IF f.off >= Len(data) THEN Epilogue(mm, f)
    ELSE IF f.fn = "FromRadio" /\ f.off + 1 >= Len(data) THEN Epilogue(mm, f)
    ELSE IF f.off < 0 THEN Panic(mm)        \* data[offset], offset < 0
    ELSE AfterField(mm, f, Field(f, data, mm.pkt, data[f.off + 1] \div 8,
                                 data[f.off + 1] % 8, f.off + 1))

LoopStep(mm) == LoopBody(mm, Top(mm), FData(mm, Top(mm)))

-----------------------------------------------------------------------------
(* The free-text path (Client.handleTextData and its helpers).  Strings    *)
(* are byte sequences; the operators below agree with the Go library on    *)
(* ASCII text, which is what the transports deliver on this path.          *)

IsSpace(b) == b \in {9, 10, 11, 12, 13, 32}

\* strings.TrimSpace
RECURSIVE TrimLeft(_)
TrimLeft(t) == IF t # <<>> /\ IsSpace(t[1]) THEN TrimLeft(Tail(t)) ELSE t

RECURSIVE TrimRight(_)
TrimRight(t) ==
    IF t # <<>> /\ IsSpace(t[Len(t)]) THEN TrimRight(SubSeq(t, 1, Len(t) - 1)) ELSE t

TrimSpace(t) == TrimRight(TrimLeft(t))

IsHex(b) == (b >= 48 /\ b <= 57) \/ (b >= 65 /\ b <= 70) \/ (b >= 97 /\ b <= 102)

HexVal(b) == IF b <= 57 THEN b - 48 ELSE IF b <= 70 THEN b - 55 ELSE b - 87

\* eight hexadecimal digits at 1-based position i of t
Hex8At(t, i) == i >= 1 /\ i + 7 <= Len(t) /\ \A k \in 0..7 : IsHex(t[i + k])

\* strconv.ParseUint(digits, 16, 32) of eight digits, as a word
RECURSIVE HexWord(_, _)
HexWord(ds, acc) ==
    IF ds = <<>> THEN acc
    ELSE LET d == HexVal(ds[1])
             \* acc * 16 + d on the 7-bit groups
             sh == [k \in 1..10 |->
                      ((acc[k] * 16) % 128)
                      + (IF k = 1 THEN d ELSE acc[k - 1] \div 8)]
         IN  HexWord(Tail(ds), sh)

RECURSIVE StripZeros(_)
StripZeros(ds) == IF ds # <<>> /\ ds[1] = 48 THEN StripZeros(Tail(ds)) ELSE ds

\* parseNodeID: the prefixes "!", "0x", "0X" are trimmed in this order and
\* the rest is parsed by strconv.ParseUint(_, 16, 32)
parseNodeID(nodeStr) ==
    LET a == IF nodeStr # <<>> /\ nodeStr[1] = 33 THEN Tail(nodeStr) ELSE nodeStr
        b == IF Len(a) >= 2 /\ a[1] = 48 /\ a[2] = 120 THEN SubSeq(a, 3, Len(a)) ELSE a
        c == IF Len(b) >= 2 /\ b[1] = 48 /\ b[2] = 88 THEN SubSeq(b, 3, Len(b)) ELSE b
        ok == c # <<>> /\ (\A k \in 1..Len(c) : IsHex(c[k])) /\ Len(StripZeros(c)) <= 8
    IN  [ok |-> ok, id |-> IF ok THEN HexWord(StripZeros(c), Zero64) ELSE Zero64]

\* parseNodeID of the eight digits at position i of t (never an error)
DigitsID(t, i) == parseNodeID(SubSeq(t, i, i + 7)).id

\* nodeIDPattern `!([0-9a-fA-F]{8})|0x([0-9a-fA-F]{8})` at position i:
\* the position of the digits, or 0
NodeIDAt(t, i) ==
    IF i <= Len(t) /\ t[i] = 33 /\ Hex8At(t, i + 1) THEN i + 1
    ELSE IF i + 1 <= Len(t) /\ t[i] = 48 /\ t[i + 1] = 120 /\ Hex8At(t, i + 2) THEN i + 2
    ELSE 0

\* nodeIDPattern.FindAllString(text, -1): the digit positions of the
\* successive non-overlapping matches from position i on
RECURSIVE FindAllNodeIDs(_, _)
FindAllNodeIDs(t, i) ==
    IF i > Len(t) THEN <<>>
    ELSE IF NodeIDAt(t, i) # 0
         THEN <<NodeIDAt(t, i)>> \o FindAllNodeIDs(t, NodeIDAt(t, i) + 8)
         ELSE FindAllNodeIDs(t, i + 1)

\* the words and phrases the free-text path looks for (rxc is "rx:", txc "tx:")
Kw ==
    [
     connected_to |-> <<99, 111, 110, 110, 101, 99, 116, 101, 100, 32, 116, 111>>,
     starting_up |-> <<115, 116, 97, 114, 116, 105, 110, 103, 32, 117, 112>>,
     device_info |-> <<100, 101, 118, 105, 99, 101, 32, 105, 110, 102, 111>>,
     firmware |-> <<102, 105, 114, 109, 119, 97, 114, 101>>,
     channel |-> <<99, 104, 97, 110, 110, 101, 108>>,
     settings |-> <<115, 101, 116, 116, 105, 110, 103, 115>>,
     config |-> <<99, 111, 110, 102, 105, 103>>,
     module |-> <<109, 111, 100, 117, 108, 101>>,
     preferences |-> <<112, 114, 101, 102, 101, 114, 101, 110, 99, 101, 115>>,
     setting |-> <<115, 101, 116, 116, 105, 110, 103>>,
     my_info |-> <<109, 121, 32, 105, 110, 102, 111>>,
     node_id |-> <<110, 111, 100, 101, 32, 105, 100>>,
     owner |-> <<111, 119, 110, 101, 114>>,
     rxc |-> <<114, 120, 58>>,
     txc |-> <<116, 120, 58>>,
     position |-> <<112, 111, 115, 105, 116, 105, 111, 110>>,
     gps |-> <<103, 112, 115>>,
     lat |-> <<108, 97, 116>>,
     lon |-> <<108, 111, 110>>,
     battery |-> <<98, 97, 116, 116, 101, 114, 121>>,
     voltage |-> <<118, 111, 108, 116, 97, 103, 101>>,
     telemetry |-> <<116, 101, 108, 101, 109, 101, 116, 114, 121>>,
     sensor |-> <<115, 101, 110, 115, 111, 114>>,
     admin |-> <<97, 100, 109, 105, 110>>,
     range |-> <<114, 97, 110, 103, 101>>,
     test |-> <<116, 101, 115, 116>>,
     node |-> <<110, 111, 100, 101>>,
     id |-> <<105, 100>>,
     user |-> <<117, 115, 101, 114>>,
     name |-> <<110, 97, 109, 101>>]

Has(t, kw) == Contains(t, kw)

\* The keyword cascade of handleTextData (lower == strings.ToLower(text))
TextPacketType(text) ==
    LET lower == ToLower(text)
    IN  IF Has(lower, Kw.connected_to) \/ Has(lower, Kw.starting_up)
           \/ Has(lower, Kw.device_info) \/ Has(lower, Kw.firmware) THEN "ADMIN"
        ELSE IF Has(lower, Kw.channel) /\ (Has(lower, Kw.settings) \/ Has(lower, Kw.config))
             THEN "ADMIN"
        ELSE IF Has(lower, Kw.module) /\ Has(lower, Kw.config) THEN "ADMIN"
        ELSE IF Has(lower, Kw.preferences) \/ Has(lower, Kw.setting) THEN "ADMIN"
        ELSE IF Has(lower, Kw.my_info) \/ Has(lower, Kw.node_id)
                \/ Has(lower, Kw.owner) \/ Has(text, <<33, 33>>) THEN "NODE_INFO"
        ELSE IF Has(lower, Kw.rxc) \/ Has(lower, Kw.txc) THEN "ROUTING"
        ELSE IF Has(lower, Kw.position) \/ Has(lower, Kw.gps)
                \/ Has(lower, Kw.lat) \/ Has(lower, Kw.lon) THEN "POSITION"
        ELSE IF Has(lower, Kw.battery) \/ Has(lower, Kw.voltage)
                \/ Has(lower, Kw.telemetry) \/ Has(lower, Kw.sensor) THEN "TELEMETRY"
        ELSE IF Has(lower, Kw.admin) \/ Has(lower, Kw.config) THEN "ADMIN"
        ELSE IF Has(lower, Kw.range) /\ Has(lower, Kw.test) THEN "RANGE_TEST"
        ELSE "TEXT"

\* The least element of a non-empty set of positions, 0 for the empty set
Least(S) == IF S = {} THEN 0 ELSE CHOOSE x \in S : \A y \in S : x <= y

KwAt(t, kw, i) == i >= 1 /\ i + Len(kw) - 1 <= Len(t)
                  /\ SubSeq(ToLower(t), i, i + Len(kw) - 1) = kw

\* `(?i)kw.*?([0-9a-fA-F]{8})`: the digits of the leftmost match, or 0
KwThenHex8(t, kw) ==
    LET ok(i, j) == /\ KwAt(t, kw, i) /\ j >= i + Len(kw) /\ Hex8At(t, j)
                    /\ \A k \in (i + Len(kw))..(j - 1) : t[k] # 10
        i0 == Least({i \in 1..Len(t) : \E j \in 1..Len(t) : ok(i, j)})
    IN  IF i0 = 0 THEN 0 ELSE Least({j \in 1..Len(t) : ok(i0, j)})

\* Client.extractNodeInfoFromText: the id of the first pattern that matches
extractNodeInfoFromText(t) ==
    LET p1 == Least({i \in 1..Len(t) : t[i] = 33 /\ Hex8At(t, i + 1)})
        p2 == Least({i \in 1..Len(t) : /\ i + 1 <= Len(t) /\ t[i] = 48
                                       /\ t[i + 1] \in {88, 120} /\ Hex8At(t, i + 2)})
        p3 == KwThenHex8(t, Kw.node)
        p4 == KwThenHex8(t, Kw.id)
    IN  IF p1 # 0 THEN DigitsID(t, p1 + 1)
        ELSE IF p2 # 0 THEN DigitsID(t, p2 + 2)
        ELSE IF p3 # 0 THEN DigitsID(t, p3)
        ELSE IF p4 # 0 THEN DigitsID(t, p4)
        ELSE Zero64

\* The position after `kw:?\s*` when kw matches at i (Len(t) + 1 at the end)
AfterKw(t, kw, i) ==
    LET c == IF i + Len(kw) <= Len(t) /\ t[i + Len(kw)] = 58
             THEN i + Len(kw) + 1 ELSE i + Len(kw)
        S == {p \in c..Len(t) : ~IsSpace(t[p])}
    IN  IF S = {} THEN Len(t) + 1 ELSE Least(S)

\* The first position >= p holding one of the bytes in bs (0 if none)
Next1(t, p, bs) == Least({q \in p..Len(t) : t[q] \in bs})

\* `(?i)kw:?\s*([^\(\n]+)\s*\(([^\)]+)\)` matched at i: the two groups.
\* p is where the first group starts, q the first "(" or newline from there,
\* q2 the "(" itself, r the first ")" after it.
ParenGroups(t, p, q, q2, r) ==
    IF p <= Len(t) /\ t[p] # 40 /\ q # 0 /\ q2 # 0 /\ t[q2] = 40 /\ r >= q2 + 2
    THEN [ok |-> TRUE, long |-> TrimSpace(SubSeq(t, p, q - 1)),
          short |-> TrimSpace(SubSeq(t, q2 + 1, r - 1))]
    ELSE [ok |-> FALSE, long |-> <<>>, short |-> <<>>]

ParenClose(t, p, q, q2) ==
    ParenGroups(t, p, q, q2, IF q2 # 0 THEN Next1(t, q2 + 1, {41}) ELSE 0)

ParenOpen(t, p, q) ==
    ParenClose(t, p, q, IF q # 0 /\ t[q] = 10
                        THEN Least({x \in q..Len(t) : ~IsSpace(t[x])}) ELSE q)

ParenFrom(t, p) == ParenOpen(t, p, Next1(t, p, {40, 10}))

NoName == [ok |-> FALSE, long |-> <<>>, short |-> <<>>]

ParenName(t, kw, i) == IF KwAt(t, kw, i) THEN ParenFrom(t, AfterKw(t, kw, i)) ELSE NoName

\* `(?i)kw:?\s*([^\n]+)` matched at i; p is where the group starts, e the
\* next newline
PlainGroup(t, c, p, e) ==
    IF p <= Len(t)
    THEN [ok |-> TRUE, short |-> <<>>,
          long |-> TrimSpace(SubSeq(t, p, IF e = 0 THEN Len(t) ELSE e - 1))]
    ELSE [ok |-> \E x \in c..Len(t) : IsSpace(t[x]) /\ t[x] # 10,
          long |-> <<>>, short |-> <<>>]

PlainFrom(t, c, p) == PlainGroup(t, c, p, Next1(t, p, {10}))

PlainName(t, kw, i) ==
    IF KwAt(t, kw, i) THEN PlainFrom(t, i + Len(kw), AfterKw(t, kw, i)) ELSE NoName

\* the match at the leftmost position where the pattern matches
NameAt(t, kw, paren, i) ==
    IF i = 0 THEN NoName
    ELSE IF paren THEN ParenName(t, kw, i) ELSE PlainName(t, kw, i)

FirstParen(t, kw) ==
    NameAt(t, kw, TRUE, Least({x \in 1..Len(t) : ParenName(t, kw, x).ok}))

FirstPlain(t, kw) ==
    NameAt(t, kw, FALSE, Least({x \in 1..Len(t) : PlainName(t, kw, x).ok}))

\* the first of the name patterns that matches
FirstOk(c, k) == IF k = 0 THEN NoName ELSE c[k]

FirstName(c) == FirstOk(c, Least({x \in 1..Len(c) : c[x].ok}))

\* `if longName != "" || shortName != "" { c.nodeDB.AddOrUpdateUserInfo(...) }`
StoreName(nodeID, nm) ==
    IF nm.long # <<>> \/ nm.short # <<>>
    THEN << [node |-> nodeID, id |-> FormatNodeID(nodeID),
             long |-> nm.long, short |-> nm.short] >>
    ELSE <<>>

\* Client.extractAndStoreNodeInfoFromText: the AddOrUpdateUserInfo calls it
\* makes (none or one)
extractAndStoreNodeInfoFromText(t, nodeID) ==
    StoreName(nodeID,
              FirstName(<<FirstParen(t, Kw.owner), FirstParen(t, Kw.user),
                          FirstParen(t, Kw.name), FirstPlain(t, Kw.owner),
                          FirstPlain(t, Kw.user), FirstPlain(t, Kw.name)>>))

\* Client.handleJSONData: a TEXT packet whose Raw is a copy of the trimmed text
handleJSONData(trimmed, now) ==
    [NewPacket(now) EXCEPT !.To = Broadcast, !.Type = "TEXT",
                           !.DecodedData = TextDataOf(trimmed),
                           !.raw = "trimmed", !.path = "text"]

\* Client.handleTextData: the packets it offers (none or one) and the
\* node directory writes it makes
handleTextData(data, now) ==
    LET trimmed == TrimSpace(data)
        ptype   == TextPacketType(data)
        ids     == FindAllNodeIDs(data, 1)
        nodeID  == extractNodeInfoFromText(data)
        from    == IF Len(ids) >= 1 THEN DigitsID(data, ids[1]) ELSE Zero64
        to      == IF Len(ids) >= 2 THEN DigitsID(data, ids[2]) ELSE Broadcast
    IN  IF trimmed = <<>> THEN [out |-> <<>>, db |-> <<>>]
        ELSE IF trimmed[1] = 123 /\ trimmed[Len(trimmed)] = 125
        THEN [out |-> <<handleJSONData(trimmed, now)>>, db |-> <<>>]
        ELSE [out |-> << [NewPacket(now) EXCEPT !.From = from, !.To = to,
                              !.Type = ptype, !.DecodedData = TextDataOf(trimmed),
                              !.path = "text"] >>,
              db  |-> IF ptype = "NODE_INFO" /\ nodeID # Zero64
                      THEN extractAndStoreNodeInfoFromText(data, nodeID) ELSE <<>>]

\* A status document of the kind the polling transport synthesizes
\* (wifi.createSyntheticPacket), and the Raw of the packet made from it
StatusDoc == <<123, 34, 116, 121, 112, 101, 34, 58, 34, 100, 101, 118, 105, 99, 101, 95, 115, 116, 97, 116, 117, 115, 34, 44, 34, 100, 101, 118, 105, 99, 101, 95, 105, 110, 102, 111, 34, 58, 123, 125, 125>>

StatusRaw == <<68, 101, 118, 105, 99, 101, 32, 83, 116, 97, 116, 117, 115, 58, 32, 109, 97, 112, 91, 93>>

\* ASCII of the JSON names and literals of the source
JsonWord ==
    [type |-> <<116, 121, 112, 101>>,
     device_status |-> <<100, 101, 118, 105, 99, 101, 95, 115, 116, 97, 116, 117, 115>>,
     device_info |-> <<100, 101, 118, 105, 99, 101, 95, 105, 110, 102, 111>>,
     timestamp |-> <<116, 105, 109, 101, 115, 116, 97, 109, 112>>,
     true |-> <<116, 114, 117, 101>>,
     false |-> <<102, 97, 108, 115, 101>>,
     null |-> <<110, 117, 108, 108>>]

(* json.Unmarshal into map[string]interface{}, for documents of objects,  *)
(* arrays, strings without escapes, integers and the three literals.      *)
(* Positions are 1-based; a value is the record JFail or one made by JVal. *)
RECURSIVE JWs(_, _)
JWs(d, i) == IF i <= Len(d) /\ d[i] \in {32, 9, 10, 13} THEN JWs(d, i + 1) ELSE i

\* the position of the quote that ends the string begun before i, or 0
RECURSIVE JStrEnd(_, _)
JStrEnd(d, i) ==
    IF i > Len(d) THEN 0
    ELSE IF d[i] = 34 THEN i
    ELSE IF d[i] = 92 \/ d[i] < 32 THEN 0
    ELSE JStrEnd(d, i + 1)

RECURSIVE JDigits(_, _)
JDigits(d, i) == IF i <= Len(d) /\ d[i] \in 48..57 THEN JDigits(d, i + 1) ELSE i

RECURSIVE DecimalOf(_, _, _)
DecimalOf(d, lo, hi) ==
    IF lo >= hi THEN 0 ELSE DecimalOf(d, lo, hi - 1) * 10 + (d[hi - 1] - 48)

JFail == [ok |-> FALSE, end |-> 0, kind |-> "", text |-> <<>>, num |-> 0,
          members |-> <<>>]

JVal(end, kind) == [JFail EXCEPT !.ok = TRUE, !.end = end, !.kind = kind]

JLit(d, i, word) ==
    /\ i + Len(word) - 1 <= Len(d)
    /\ SubSeq(d, i, i + Len(word) - 1) = word

RECURSIVE JValue(_, _)
RECURSIVE JMembers(_, _, _)
RECURSIVE JElements(_, _, _)

\* the value that begins at or after i0
JValue(d, i0) ==
    LET i == JWs(d, i0)
    IN  IF i > Len(d) THEN JFail
        ELSE IF d[i] = 34
             THEN LET e == JStrEnd(d, i + 1)
                  IN  IF e = 0 THEN JFail
                      ELSE [JVal(e + 1, "string") EXCEPT !.text = SubSeq(d, i + 1, e - 1)]
        ELSE IF d[i] = 123 THEN JMembers(d, JWs(d, i + 1), <<>>)
        ELSE IF d[i] = 91 THEN JElements(d, JWs(d, i + 1), TRUE)
        ELSE IF JLit(d, i, JsonWord.true) THEN JVal(i + 4, "true")
        ELSE IF JLit(d, i, JsonWord.false) THEN JVal(i + 5, "false")
        ELSE IF JLit(d, i, JsonWord.null) THEN JVal(i + 4, "null")
        ELSE LET neg == d[i] = 45
                 s   == IF neg THEN i + 1 ELSE i
                 e   == JDigits(d, s)
             IN  IF e = s \/ (d[s] = 48 /\ e > s + 1) THEN JFail
                 ELSE [JVal(e, "number") EXCEPT
                          !.num = (IF neg THEN -1 ELSE 1) * DecimalOf(d, s, e)]

\* the members of an object from position i on, after those of acc
JMembers(d, i, acc) ==
    IF i > Len(d) THEN JFail
    ELSE IF d[i] = 125 /\ acc = <<>> THEN JVal(i + 1, "object")
    ELSE IF d[i] # 34 THEN JFail
    ELSE LET ke == JStrEnd(d, i + 1)
             c  == JWs(d, ke + 1)
         IN  IF ke = 0 \/ c > Len(d) THEN JFail
             ELSE IF d[c] # 58 THEN JFail
             ELSE LET v    == JValue(d, c + 1)
                      n    == JWs(d, v.end)
                      acc2 == Append(acc, [key |-> SubSeq(d, i + 1, ke - 1), val |-> v])
                  IN  IF ~v.ok \/ n > Len(d) THEN JFail
                      ELSE IF d[n] = 125
                           THEN [JVal(n + 1, "object") EXCEPT !.members = acc2]
                      ELSE IF d[n] = 44 /\ JWs(d, n + 1) <= Len(d)
                           THEN IF d[JWs(d, n + 1)] = 34
                                THEN JMembers(d, JWs(d, n + 1), acc2) ELSE JFail
                      ELSE JFail

\* the elements of an array from position i on
JElements(d, i, first) ==
    IF i > Len(d) THEN JFail
    ELSE IF first /\ d[i] = 93 THEN JVal(i + 1, "array")
    ELSE LET v == JValue(d, i)
             n == JWs(d, v.end)
         IN  IF ~v.ok \/ n > Len(d) THEN JFail
             ELSE IF d[n] = 93 THEN JVal(n + 1, "array")
             ELSE IF d[n] = 44 THEN JElements(d, JWs(d, n + 1), FALSE)
             ELSE JFail

\* json.Unmarshal(data, &jsonData): the document, or JFail for an error
Unmarshal(data) ==
    LET v == JValue(data, 1)
    IN  IF v.ok /\ JWs(data, v.end) = Len(data) + 1 /\ v.kind \in {"object", "null"}
        THEN v ELSE JFail

\* jsonData[key]: the last member of that name; JFail when there is none
JGet(v, key) ==
    LET at == {k \in 1..Len(v.members) : v.members[k].key = key}
    IN  IF at = {} THEN JFail
        ELSE v.members[CHOOSE k \in at : \A j \in at : j <= k].val

\* a parseJSONPacket that makes a text packet of the status document, as
\* handleJSONData does of other documents
parseJSONPacketAsText(data, now) ==
    LET doc == Unmarshal(data)
    IN  IF /\ JGet(doc, JsonWord.type).kind = "string"
           /\ JGet(doc, JsonWord.type).text = JsonWord.device_status
           /\ JGet(doc, JsonWord.device_info).kind = "object"
        THEN [ok |-> TRUE,
              pkt |-> [NewPacket(now) EXCEPT !.To = Broadcast, !.Type = "TEXT",
                          !.DecodedData = TextDataOf(data), !.path = "json"]]
        ELSE [ok |-> FALSE, pkt |-> NewPacket(0)]

\* Client.parseJSONPacket with parseDeviceStatusPacket: a chunk is accepted
\* when it is a JSON object whose "type" is the string "device_status" and
\* whose "device_info" is an object (the empty one in the documents of the
\* model, so no power, airtime or wifi reading is taken from it)
parseJSONPacket(data, now) ==
    LET doc == Unmarshal(data)
        ts  == JGet(doc, JsonWord.timestamp)
    IN  IF /\ JGet(doc, JsonWord.type).kind = "string"
           /\ JGet(doc, JsonWord.type).text = JsonWord.device_status
           /\ JGet(doc, JsonWord.device_info).kind = "object"
        THEN [ok |-> TRUE,
              pkt |-> [NewPacket(0) EXCEPT
                          !.From = LEWord(<<120, 86, 52, 18>>),
                          !.To = Broadcast, !.Type = "TELEMETRY", !.HopLimit = 3,
                          !.RxTime = [clock |-> 0,
                                      unix |-> IF ts.kind = "number" /\ ts.num >= 0
                                               THEN W(ts.num) ELSE Zero64],
                          !.DecodedData = [NilData EXCEPT !.kind = "Telemetry"],
                          !.raw = "status", !.path = "json"]]
        ELSE [ok |-> FALSE, pkt |-> NewPacket(0)]

-----------------------------------------------------------------------------
(* Steps of the decode machine *)

\* typed nil: decodePayload returns the (possibly nil) pointer of the
\* interpreter inside an interface value
TypedNil(ptype, dd) ==
    IF dd.kind # "nil" THEN dd
    ELSE [NilData EXCEPT !.kind = IF ptype = "NODE_INFO" THEN "nilUserData"
                                  ELSE "nilRemoteHardware"]

\* The callee has returned mm.rv; the caller on top of the stack continues
\* after its call
Resume(mm) ==
    LET f  == Top(mm)
        g  == [f EXCEPT !.wait = ""]
        rv == mm.rv
    IN  CASE f.wait = "env4" ->
               SetTop([mm EXCEPT !.pkt =
                   [mm.pkt EXCEPT !.Type = IF rv.dd.kind # "nil" THEN "NODE_INFO" ELSE "TEXT",
                                  !.From = Zero64, !.To = Broadcast,
                                  !.DecodedData =
                                      IF rv.dd.kind # "nil" THEN rv.dd
                                      ELSE TextDataOf(StrNodeInfoData
                                               \o HexUpper(Bytes(mm.B, f.arg)))]], g)
          [] f.wait = "mesh4" ->
               IF rv.err
               THEN DoCall([mm EXCEPT !.pkt.Payload = f.arg], g,
                           Call("Infer", f.arg, "mesh4i"), "UNKNOWN")
               ELSE SetTop(mm, g)
          [] f.wait = "mesh4i" ->
               DoCall([mm EXCEPT !.pkt.Type = rv.ptype], g,
                      Call("Decode", f.arg, "mesh4d"), rv.ptype)
          [] f.wait = "mesh4d" -> SetTop([mm EXCEPT !.pkt.DecodedData = rv.dd], g)
          [] f.wait = "ni2" ->
               IF rv.dd.kind = "nil" THEN SetTop(mm, g)
               ELSE SetTop(mm, [g EXCEPT !.loc.long = rv.dd.long,
                                         !.loc.short = rv.dd.short,
                                         !.loc.id = IF f.loc.id = <<>> /\ rv.dd.id # <<>>
                                                    THEN rv.dd.id ELSE f.loc.id])
          [] f.wait = "datad" -> Return([mm EXCEPT !.pkt.DecodedData = rv.dd], RvOk)
          [] f.wait = "inferu" ->
               IF rv.dd.kind # "nil"
                  /\ (rv.dd.id # <<>> \/ rv.dd.long # <<>> \/ rv.dd.short # <<>>)
               THEN Return(mm, RvType("NODE_INFO"))
               ELSE Return(mm, RvType(InferTail(FData(mm, f))))
          [] f.wait = "dec" -> Return(mm, RvData(TypedNil(f.loc.ptype, rv.dd)))
          [] f.wait = "rawi" ->
               DoCall([mm EXCEPT !.pkt.Type = rv.ptype], g,
                      Call("Decode", f.arg, "rawd"), rv.ptype)
          [] f.wait = "rawd" ->
               \* globalPacketStats.IncrementPacketType(packet.Type)
               Return([mm EXCEPT !.pkt.DecodedData = rv.dd,
                                 !.gstat = Append(mm.gstat, mm.pkt.Type)], RvOk)

\* inferPacketType up to its call of parseUserMessage
InferStep(mm) ==
    LET f == Top(mm)
        payload == FData(mm, f)
    IN  IF Len(payload) = 0 THEN Return(mm, RvType("UNKNOWN"))
        ELSE IF IsPositionMessage(payload) THEN Return(mm, RvType("POSITION"))
        ELSE IF IsTelemetryMessage(payload) THEN Return(mm, RvType("TELEMETRY"))
        ELSE DoCall(mm, f, Call("User", f, "inferu"), "UNKNOWN")

\* decodePayload up to its call of an interpreter
DecodeStep(mm) ==
    LET f == Top(mm)
    IN  IF DecodeLoop(f.loc.ptype) = ""
        THEN Return(mm, RvData(DecodeDirect(f.loc.ptype, FData(mm, f))))
        ELSE DoCall(mm, f, Call(DecodeLoop(f.loc.ptype), f, "dec"), "UNKNOWN")

\* ParseRawPacket from its header fields to its call of inferPacketType
RawStep(mm) ==
    LET f == Top(mm)
        data == mm.B
        flags == SubSeq(data, 13, 16)
        pkt == [NewPacket(mm.now) EXCEPT
                   !.ID = LEWord(SubSeq(data, 1, 4)),
                   !.From = LEWord(SubSeq(data, 5, 8)),
                   !.To = LEWord(SubSeq(data, 9, 12)),
                   !.Channel = flags[1], !.HopCount = flags[2],
                   !.HopLimit = flags[3], !.Priority = flags[4]]
        pay == [lo |-> 16, hi |-> Len(data)]
    IN  IF Len(data) > 16
        THEN DoCall([mm EXCEPT !.pkt = [pkt EXCEPT !.Payload = pay]], f,
                    Call("Infer", pay, "rawi"), "UNKNOWN")
        ELSE Return([mm EXCEPT !.pkt = pkt], RvOk)

\* handleRawData between two decode paths (the stack is empty)
PhaseStep(mm) ==
    LET t == [mm EXCEPT !.tried = Append(mm.tried, mm.phase)]
    IN  CASE mm.phase = "json" ->
               LET r == parseJSONPacket(mm.B, mm.now)
               IN  IF r.ok THEN Offer(t, r.pkt, "json")
                   ELSE [t EXCEPT !.phase = "envelope", !.rv = RvErr]
          [] mm.phase = "envelope" ->
               IF Len(mm.B) < 4 THEN [t EXCEPT !.phase = "legacy", !.rv = RvErr]
               ELSE [t EXCEPT !.stack = <<Frame("FromRadio", 0, Len(mm.B))>>,
                              !.pkt = NewPacket(mm.now)]
          [] mm.phase = "legacy" ->
               IF Len(mm.B) < 16 THEN [t EXCEPT !.phase = "text", !.rv = RvErr]
               ELSE [t EXCEPT !.stack = <<Frame("Raw", 0, Len(mm.B))>>]
          [] mm.phase = "text" ->
               LET r == handleTextData(mm.B, mm.now)
               IN  [t EXCEPT !.st = "returned", !.phase = "done",
                             !.out = mm.out \o r.out, !.db = mm.db \o r.db]

\* One step of handleRawData
Step(mm) ==
    IF mm.stack = <<>> THEN PhaseStep(mm)
    ELSE IF Top(mm).wait # "" THEN Resume(mm)
    ELSE IF Top(mm).fn \in LoopFns THEN LoopStep(mm)
    ELSE IF Top(mm).fn = "Infer" THEN InferStep(mm)
    ELSE IF Top(mm).fn = "Decode" THEN DecodeStep(mm)
    ELSE RawStep(mm)

\* handleRawData(data) about to run
Start(data, now) ==
    [B |-> data, st |-> "run", phase |-> "json", stack |-> <<>>, rv |-> RvOk,
     pkt |-> NewPacket(now), out |-> <<>>, db |-> <<>>, gstat |-> <<>>,
     tried |-> <<>>, now |-> now]

Idle == [Start(<<>>, 0) EXCEPT !.st = "idle", !.phase = "done"]

\* handleRawData run for at most `fuel` steps; st = "run" in the result
\* means it had not returned by then
RECURSIVE RunWalk(_, _)
RunWalk(mm, fuel) ==
    IF mm.st # "run" \/ fuel = 0 THEN mm ELSE RunWalk(Step(mm), fuel - 1)

-----------------------------------------------------------------------------
(* Program constants and bounds *)

START1 == 148
START2 == 195
HEADER_LEN == 4
MAX_TO_FROM_RADIO_SIZE == 512

\* make(chan *Packet, 100)
QueueCapacity == 100

\* bytes fed to the TCP stream reader
MaxStream == 9

\* handleRawData calls by the serial listener, in the pipeline and in the
\* queue specification
MaxSubmits == 3
MaxBurst == 102

\* submits at the head of a burst whose chunk is chosen freely
MaxVaried == 2

\* packets recorded, snapshots taken and writes made to snapshots
MaxRecorded == 3

\* frames in a stream of well-formed frames
MaxFrames == 3
MaxSnapshots == 2
MaxWrites == 2

\* packets the consumer takes from a channel that starts full
MaxHandled == 3

\* calls of Start and Stop
MaxCalls == 4

MaxSubscribers == 2

\* chunks read while handlers are outstanding
MaxQueued == 3

\* steps after which a handleRawData call that has not returned is taken
\* to be stuck
Fuel == 40

-----------------------------------------------------------------------------
(* Transport buffers.  heap.serial is the `buffer` of the serial           *)
(* listener, of which only the cells written so far are kept; heap.tcp     *)
(* are the backing arrays rxBuf has had.  A reference [arr, lo, hi) is a   *)
(* Go slice of one of them: arr = 0 the serial buffer, arr >= 1 a TCP      *)
(* array, arr = -1 no array.                                               *)

NilRef == [arr |-> -1, lo |-> 0, hi |-> 0]

CellsOf(h, arr) == IF arr = 0 THEN h.serial ELSE h.tcp[arr]

\* the bytes a slice holds now
Deref(h, r) ==
    IF r.arr = -1 THEN <<>>
    ELSE [i \in 1..(r.hi - r.lo) |->
             IF r.lo + i <= Len(CellsOf(h, r.arr)) THEN CellsOf(h, r.arr)[r.lo + i] ELSE 0]

\* the capacity append gives a []byte that has outgrown capacity c
GrowCap(c) == IF c = 0 THEN 8 ELSE IF c < 512 THEN 2 * c ELSE 896

\* c.rxBuf = append(c.rxBuf, b): the new heap and slice header
AppendByte(h, rx, b) ==
    IF rx.len < rx.cap
    THEN LET old == h.tcp[rx.arr]
             new == [i \in 1..(IF rx.len + 1 > Len(old) THEN rx.len + 1 ELSE Len(old)) |->
                        IF i = rx.len + 1 THEN b ELSE old[i]]
         IN  [h |-> [h EXCEPT !.tcp[rx.arr] = new], rx |-> [rx EXCEPT !.len = rx.len + 1]]
    ELSE LET kept == Deref(h, [arr |-> rx.arr, lo |-> 0, hi |-> rx.len])
         IN  [h |-> [h EXCEPT !.tcp = Append(h.tcp, Append(kept, b))],
              rx |-> [arr |-> Len(h.tcp) + 1, len |-> rx.len + 1, cap |-> GrowCap(rx.cap)]]

\* n, err := c.Read(buffer): the chunk lands at the start of the buffer
SerialFill(h, c) ==
    [h EXCEPT !.serial = c \o SubSeq(h.serial, Len(c) + 1, Len(h.serial))]

-----------------------------------------------------------------------------
(* Queue entries.  A queued *Packet is the record the decode machine       *)
(* built, with its Raw and Payload slices placed in the transport buffer   *)
(* the chunk was handed over in.                                           *)

Entry(pkt, ref, B, sn) ==
    [p |-> pkt, sn |-> sn,
     rawRef |-> IF pkt.raw = "data" THEN ref ELSE NilRef,
     rawOwn |-> IF pkt.raw = "trimmed" THEN TrimSpace(B)
                ELSE IF pkt.raw = "status" THEN StatusRaw ELSE <<>>,
     payRef |-> IF pkt.Payload = NoSpan THEN NilRef
                ELSE [arr |-> ref.arr, lo |-> ref.lo + pkt.Payload.lo,
                      hi |-> ref.lo + pkt.Payload.hi]]

\* what a reader of the packet sees: its fields and the bytes of its slices
View(h, e) ==
    [p |-> e.p, sn |-> e.sn,
     Raw |-> IF e.rawRef.arr = -1 THEN e.rawOwn ELSE Deref(h, e.rawRef),
     Payload |-> Deref(h, e.payRef)]

NoEntry == Entry(NewPacket(0), NilRef, <<>>, 0)

\* a send that enqueues whatever the length of the channel
TrySendUnbounded(q, e) == Append(q, e)

\* select { case c.packets <- packet: default: }
TrySend(q, e) == IF Len(q) < QueueCapacity THEN Append(q, e) ELSE q

\* an update that keeps the old value of a field whose new value is empty
AddOrUpdateMerging(db, w) ==
    [n \in DOMAIN db \cup {w.node} |->
        IF n # w.node THEN db[n]
        ELSE IF n \notin DOMAIN db
             THEN [ID |-> w.id, LongName |-> w.long, ShortName |-> w.short]
        ELSE [ID |-> IF w.id = <<>> THEN db[n].ID ELSE w.id,
              LongName |-> IF w.long = <<>> THEN db[n].LongName ELSE w.long,
              ShortName |-> IF w.short = <<>> THEN db[n].ShortName ELSE w.short]]

\* NodeDB.AddOrUpdateUserInfo
AddOrUpdateUserInfo(db, w) ==
    [n \in DOMAIN db \cup {w.node} |->
        IF n = w.node THEN [ID |-> w.id, LongName |-> w.long, ShortName |-> w.short]
        ELSE db[n]]

RECURSIVE ApplyWrites(_, _)
ApplyWrites(db, ws) ==
    IF ws = <<>> THEN db ELSE ApplyWrites(AddOrUpdateUserInfo(db, ws[1]), Tail(ws))

\* utils.SanitizeForTerminal on ASCII text, where no emoji is replaced:
\* the control characters (below 32, and 127) are left out and the white
\* space at both ends is trimmed
SanitizeForTerminal(s) == TrimSpace(SelectSeq(s, LAMBDA b : b >= 32 /\ b # 127))

\* a cut at maxWidth characters without an ellipsis
TruncatePlain(s, maxWidth) ==
    IF maxWidth <= 0 THEN <<>>
    ELSE IF Len(SanitizeForTerminal(s)) <= maxWidth THEN SanitizeForTerminal(s)
    ELSE SubSeq(SanitizeForTerminal(s), 1, maxWidth)

\* utils.TruncateForDisplay, on ASCII text (one rune per byte)
TruncateForDisplay(s, maxWidth) ==
    IF maxWidth <= 0 THEN <<>>
    ELSE LET runes == SanitizeForTerminal(s)
         IN  IF Len(runes) <= maxWidth THEN runes
             ELSE IF maxWidth <= 3 THEN SubSeq(runes, 1, maxWidth)
             ELSE SubSeq(runes, 1, maxWidth - 3) \o <<46, 46, 46>>

\* a lookup that prefers the id string to the names
GetNodeNameByID(db, nodeID) ==
    IF nodeID \in DOMAIN db /\ db[nodeID].ID # <<>> THEN db[nodeID].ID
    ELSE FormatNodeID(nodeID)

\* NodeDB.GetNodeName
GetNodeName(db, nodeID) ==
    IF nodeID \notin DOMAIN db THEN FormatNodeID(nodeID)
    ELSE IF db[nodeID].LongName # <<>> THEN SanitizeForTerminal(db[nodeID].LongName)
    ELSE IF db[nodeID].ShortName # <<>> THEN SanitizeForTerminal(db[nodeID].ShortName)
    ELSE IF db[nodeID].ID # <<>> THEN db[nodeID].ID
    ELSE FormatNodeID(nodeID)

\* a short name that is the long name in full
GetNodeShortNameUncut(db, nodeID) ==
    IF nodeID \notin DOMAIN db THEN FormatNodeID(nodeID)
    ELSE IF db[nodeID].ShortName # <<>> THEN SanitizeForTerminal(db[nodeID].ShortName)
    ELSE IF db[nodeID].LongName # <<>> THEN SanitizeForTerminal(db[nodeID].LongName)
    ELSE FormatNodeID(nodeID)

\* NodeDB.GetNodeShortName
GetNodeShortName(db, nodeID) ==
    IF nodeID \notin DOMAIN db THEN FormatNodeID(nodeID)
    ELSE IF db[nodeID].ShortName # <<>> THEN SanitizeForTerminal(db[nodeID].ShortName)
    ELSE IF db[nodeID].LongName # <<>>
         THEN LET sanitized == SanitizeForTerminal(db[nodeID].LongName)
              IN  IF Len(sanitized) <= 8 THEN sanitized ELSE SubSeq(sanitized, 1, 8)
    ELSE FormatNodeID(nodeID)

\* a count that starts again at one
IncrReset(f, k) == [x \in DOMAIN f \cup {k} |-> IF x = k THEN 1 ELSE f[x]]

\* m[k]++ on a Go map
Incr(f, k) == [x \in DOMAIN f \cup {k} |->
                  IF x = k THEN (IF k \in DOMAIN f THEN f[k] ELSE 0) + 1 ELSE f[x]]

\* float32 values.  A finite value is n / 2^e with n odd (or n = e = 0),
\* so that equal values are equal records; "inf" carries its sign in n.
\* The arithmetic below is exact, and rounds to 24 significant bits, as
\* long as the aligned operands fit the integers of the checker, which
\* the samples of the model do.
F32Zero == [k |-> "num", n |-> 0, e |-> 0]

F32NaN == [k |-> "nan", n |-> 0, e |-> 0]

RECURSIVE F32Norm(_, _)
F32Norm(n, e) ==
    IF n = 0 THEN F32Zero
    ELSE IF n % 2 = 0 THEN F32Norm(n \div 2, e - 1)
    ELSE [k |-> "num", n |-> n, e |-> e]

\* round to nearest, ties to even, a value n / 2^e with |n| < 2^31
F32Round(n, e) ==
    LET a  == IF n < 0 THEN -n ELSE n
        sh == IF a < 16777216 THEN 0
              ELSE CHOOSE s \in 1..7 :
                      /\ a \div Pow2(s) < 16777216
                      /\ a \div Pow2(s - 1) >= 16777216
        q  == a \div Pow2(sh)
        r  == a % Pow2(sh)
        up == sh > 0 /\ (2 * r > Pow2(sh) \/ (2 * r = Pow2(sh) /\ q % 2 = 1))
        mag == IF up THEN q + 1 ELSE q
    IN  F32Norm(IF n < 0 THEN -mag ELSE mag, e - sh)

\* int32(w) of a 32-bit pattern, and float32 of it
Int32Of(w) ==
    LET low31 == w[1] + 128 * w[2] + 16384 * w[3] + 2097152 * w[4]
                 + 268435456 * (w[5] % 8)
    IN  IF w[5] % 16 >= 8 THEN (low31 - 1073741824) - 1073741824 ELSE low31

F32OfInt32(w) ==
    IF Int32Of(w) = (0 - 1073741824) - 1073741824
    THEN [k |-> "num", n |-> -1, e |-> -31]
    ELSE F32Round(Int32Of(w), 0)

\* math.Float32frombits: sign bit 31, exponent bits 23..30, fraction 0..22
Float32frombits(w) ==
    LET neg  == w[5] % 16 >= 8
        ex   == (w[4] \div 4) + 32 * (w[5] % 8)
        frac == w[1] + 128 * w[2] + 16384 * w[3] + 2097152 * (w[4] % 4)
        sg(x) == IF neg THEN -x ELSE x
    IN  IF ex = 255
        THEN IF frac = 0 THEN [k |-> "inf", n |-> sg(1), e |-> 0] ELSE F32NaN
        ELSE IF ex = 0 THEN F32Norm(sg(frac), 149)
        ELSE F32Norm(sg(8388608 + frac), 150 - ex)

RECURSIVE F32Scale(_, _)
F32Scale(n, d) == IF d = 0 THEN n ELSE F32Scale(2 * n, d - 1)

\* a + b
F32Add(a, b) ==
    IF a.k = "nan" \/ b.k = "nan" THEN F32NaN
    ELSE IF a.k = "inf" THEN (IF b.k = "inf" /\ b.n # a.n THEN F32NaN ELSE a)
    ELSE IF b.k = "inf" THEN b
    ELSE LET E == IF a.e > b.e THEN a.e ELSE b.e
         IN  F32Round(F32Scale(a.n, E - a.e) + F32Scale(b.n, E - b.e), E)

\* a / 2
F32Half(a) == IF a.k = "num" THEN F32Norm(a.n, a.e + 1) ELSE a

\* an average that folds the sample in whatever it was before
AverageAlways(avg, sample) == F32Half(F32Add(avg, sample))

\* `if avg == 0 { avg = sample } else { avg = (avg + sample) / 2 }`
Average(avg, sample) ==
    IF avg = F32Zero THEN sample ELSE F32Half(F32Add(avg, sample))

\* Client.updateStatistics
updateStatistics(st, pkt) ==
    [TotalPackets |-> st.TotalPackets + 1,
     PacketsByType |-> Incr(st.PacketsByType, pkt.Type),
     PacketsByChannel |-> Incr(st.PacketsByChannel, pkt.Channel),
     LastPacketTime |-> pkt.RxTime,
     AverageRSSI |-> IF Int32Of(pkt.RxRSSI) # 0
                     THEN Average(st.AverageRSSI, F32OfInt32(pkt.RxRSSI))
                     ELSE st.AverageRSSI,
     AverageSNR |-> IF Float32frombits(pkt.RxSNR) # F32Zero
                    THEN Average(st.AverageSNR, Float32frombits(pkt.RxSNR))
                    ELSE st.AverageSNR]

\* Client.GetStatistics: a copy made under the read lock
GetStatistics(st) ==
    [TotalPackets |-> st.TotalPackets,
     PacketsByType |-> [t \in DOMAIN st.PacketsByType |-> st.PacketsByType[t]],
     PacketsByChannel |-> [c \in DOMAIN st.PacketsByChannel |-> st.PacketsByChannel[c]],
     AverageRSSI |-> st.AverageRSSI,
     AverageSNR |-> st.AverageSNR,
     LastPacketTime |-> st.LastPacketTime]

(* The statistics with their two maps as objects: h is the sequence of    *)
(* the maps made so far, and a Statistics value `s` names its maps by      *)
(* their positions in h.                                                   *)
StatsAt(h, s) ==
    [s EXCEPT !.PacketsByType = h[s.PacketsByType],
              !.PacketsByChannel = h[s.PacketsByChannel]]

\* c.updateStatistics(packet) on the maps of s
RecordIn(h, s, pkt) ==
    LET v == updateStatistics(StatsAt(h, s), pkt)
    IN  [h |-> [h EXCEPT ![s.PacketsByType] = v.PacketsByType,
                         ![s.PacketsByChannel] = v.PacketsByChannel],
         s |-> [v EXCEPT !.PacketsByType = s.PacketsByType,
                         !.PacketsByChannel = s.PacketsByChannel]]

\* a copy of the struct alone, which names the maps of the original
MakeSnapshotShallow(h, s) == [h |-> h, s |-> s]

\* c.GetStatistics(): a new struct with two maps made by make() and
\* filled from the maps of c.stats
MakeSnapshot(h, s) ==
    LET v == GetStatistics(StatsAt(h, s))
    IN  [h |-> h \o <<v.PacketsByType, v.PacketsByChannel>>,
         s |-> [v EXCEPT !.PacketsByType = Len(h) + 1,
                         !.PacketsByChannel = Len(h) + 2]]

\* Client.updateNodeDB: only a NODE_INFO packet whose DecodedData is a
\* *NodeInfo writes the directory
updateNodeDB(db, pkt) ==
    IF pkt.Type = "NODE_INFO" /\ pkt.DecodedData.kind = "NodeInfo"
    THEN LET d == pkt.DecodedData
             parsed == parseNodeID(d.id)
             nodeID == IF d.id # <<>> /\ parsed.ok THEN parsed.id ELSE pkt.From
         IN  AddOrUpdateUserInfo(db, [node |-> nodeID, id |-> d.id,
                                      long |-> d.long, short |-> d.short])
    ELSE db

-----------------------------------------------------------------------------
(* Inputs *)

\* bytes the TCP peer may send: the two preamble bytes and the length
\* bytes that give the lengths 0, 2, 512 and 514
StreamBytes == {0, 2, START1, START2}

TextChunk == <<104, 105>>
BlankChunk == <<32>>

\* FromRadio{node_info: NodeInfo{num: 42, user: User{long_name: "Al"}}}
NodeInfoChunk == <<34, 8, 8, 42, 18, 4, 18, 2, 65, 108>>

\* FromRadio{packet: MeshPacket{from: 7, decoded: Data{portnum: 4 (NODEINFO_APP),
\* payload: User{long_name: "Al"}}}}
UserInfoChunk == <<18, 12, 8, 7, 34, 8, 8, 4, 18, 4, 18, 2, 65, 108>>

\* "owner !0000002b": text that names a node and its owner, too short for
\* the legacy header
OwnerChunk == <<111, 119, 110, 101, 114, 32, 33, 48, 48, 48, 48, 48, 48, 50, 98>>

BurstChunks == {TextChunk}

PipelineChunks == {TextChunk, BlankChunk, NodeInfoChunk, UserInfoChunk, OwnerChunk}

\* 2^64 - k as a word, for 1 <= k <= 128
NegWord(k) == <<128 - k, 127, 127, 127, 127, 127, 127, 127, 127, 1>>

\* FromRadio field 2 of declared length 2^64 - 5: the slice expression of
\* parseFromRadioMessage panics
PanicChunk == <<18>> \o appendVarint(<<>>, NegWord(5))

\* 2^63 - 1 and 2^63
MaxInt64 == <<127, 127, 127, 127, 127, 127, 127, 127, 127, 0>>
MinInt64 == <<0, 0, 0, 0, 0, 0, 0, 0, 0, 1>>

\* a length-delimited field: tag, length, body
Wrap(tag, body) == <<tag>> \o appendVarint(<<>>, W(Len(body))) \o body

\* length prefixes: within the buffer, beyond it, and the 64-bit extremes
DecodeLengths == {W(0), W(2), W(4), W(100), NegWord(1), NegWord(5), NegWord(11),
                  MaxInt64, MinInt64}

DecodeFills == {<<>>, <<8, 42>>, <<18, 2, 65, 108>>}

\* one field with a declared length, as a FromRadio message and nested in
\* the packet (2) and node_info (4) fields of one
OneField == {<<tag>> \o appendVarint(<<>>, L) \o fill :
                tag \in {10, 18, 26, 34}, L \in DecodeLengths, fill \in DecodeFills}

\* Data{portnum: 2, payload: RemoteHardware}, Data{portnum: 4, payload: User},
\* Data{portnum: 1, payload: "hi"}, a one-byte Data message
DataSamples == {<<8, 2>> \o Wrap(18, <<8, 1, 16, 5>>),
                <<8, 4>> \o Wrap(18, <<18, 2, 65, 108>>),
                <<8, 1>> \o Wrap(18, TextChunk),
                <<7>>}

\* FromRadio{packet: MeshPacket{from: 7, channel: 1, decoded: Data{portnum: 2
\* (REMOTE_HARDWARE_APP), payload: HardwareMessage{type: 1, gpio_mask: 5}}}}
ChannelChunk == Wrap(18, <<8, 7, 24, 1>> \o Wrap(34, <<8, 2>> \o Wrap(18, <<8, 1, 16, 5>>)))

\* the chunks a burst may begin with
StatsChunks == {TextChunk, ChannelChunk}

\* FromRadio{packet: MeshPacket{from: 7, rx_rssi: r, rx_snr: s}}, the RSSI
\* given as the varint of the sign-extended value and the SNR as the four
\* little-endian bytes of the float
SignalChunk(rssi, snr) ==
    Wrap(18, <<8, 7>> \o appendVarint(<<96>>, rssi) \o <<69>> \o snr)

\* RSSI -80, -90, 80 and 0 with SNR 5.5, -3.25, -5.5, 0 and -0
SignalChunks ==
    {SignalChunk(NegWord(80), <<0, 0, 176, 64>>),
     SignalChunk(NegWord(90), <<0, 0, 80, 192>>),
     SignalChunk(W(80), <<0, 0, 176, 192>>),
     SignalChunk(W(0), <<0, 0, 0, 0>>),
     SignalChunk(NegWord(90), <<0, 0, 0, 128>>)}

\* 64-bit values with at most two non-zero groups, and the values 0, 127,
\* 128, 300, 2^35, 2^63 - 1, 2^63 and 2^64 - 1
VarintValues ==
    {[i \in 1..10 |-> IF i = a THEN (IF i = 10 THEN x % 2 ELSE x)
                      ELSE IF i = b THEN (IF i = 10 THEN y % 2 ELSE y) ELSE 0] :
        a \in 1..10, b \in 1..10, x \in {0, 1, 127}, y \in {1, 44}}
    \cup {W(0), W(127), W(128), W(300), <<0, 0, 0, 0, 0, 1, 0, 0, 0, 0>>,
          MaxInt64, MinInt64, NegWord(1)}

\* what the buffer holds before the value is appended, and what follows it
VarintPrefixes == {<<>>, <<8>>, <<200, 1>>}
VarintSuffixes == {<<>>, <<255>>}

\* buffers a skip starts in: a length prefix and what follows it, and
\* runs of bytes shorter and longer than a fixed32 and a fixed64
SkipBuffers ==
    {appendVarint(<<>>, L) \o fill : L \in DecodeLengths, fill \in DecodeFills}
    \cup {<<>>, <<128>>, <<1, 2, 3>>, <<1, 2, 3, 4>>, <<1, 2, 3, 4, 5, 6, 7>>,
          <<1, 2, 3, 4, 5, 6, 7, 8>>, <<1, 2, 3, 4, 5, 6, 7, 8, 9>>}

SkipOffsets == 0..2

WireTypes == 0..7

\* values of the known field: as a port number they are TEXT_MESSAGE_APP,
\* NODEINFO_APP and TELEMETRY_APP
KnownValues == {W(1), W(4), W(67)}

\* numbers of the unknown field: with a one-byte tag and with a two-byte tag
UnknownNumbers == {5, 15, 16, 31}

\* contents of the unknown field, some of which read as fields themselves
UnknownContents == {<<>>, <<65>>, <<8, 9>>, <<16, 9>>, [i \in 1..130 |-> 0]}

\* tag, length and bytes of a length-delimited field, the tag as a varint
LengthDelimited(number, content) ==
    appendVarint(appendVarint(<<>>, W(8 * number + 2)), W(Len(content))) \o content

\* the two fields in the order p.first says: in a Data message the known
\* field is portnum (1); in a RemoteHardware message, the payload of a
\* Data message of port 2, it is gpio_mask (2)
UnknownChunk(p) ==
    LET known   == appendVarint(<<IF p.in = "Data" THEN 8 ELSE 16>>, p.known)
        unknown == LengthDelimited(p.number, p.content)
        msg     == IF p.first = "known" THEN known \o unknown ELSE unknown \o known
    IN  Wrap(18, <<8, 7>> \o Wrap(34, IF p.in = "Data" THEN msg
                                      ELSE <<8, 2>> \o Wrap(18, msg)))

\* MeshPacket fields with a two-byte tag: public_key (16) with no, one and
\* 32 bytes, and pki_encrypted (17) false and true
TwoByteFields ==
    {LengthDelimited(16, <<>>), LengthDelimited(16, <<65>>),
     LengthDelimited(16, [i \in 1..32 |-> 7]),
     appendVarint(appendVarint(<<>>, W(8 * 17)), W(0)),
     appendVarint(appendVarint(<<>>, W(8 * 17)), W(1))}

\* FromRadio{packet: MeshPacket{<t>, from: n, channel: 1, decoded:
\* Data{portnum: 1, payload: "hi"}}} for t one of these fields or nothing
FollowedChunk(t, n) ==
    Wrap(18, t \o <<8, n, 24, 1>> \o Wrap(34, <<8, 1>> \o Wrap(18, TextChunk)))

Senders == {7, 42}

FollowedChunks ==
    {FollowedChunk(t, n) : t \in TwoByteFields \cup {<<>>}, n \in Senders}

\* a field 13, unknown at every level, that cannot be read to its end: a
\* varint without a last byte, a length-delimited field whose length has
\* none, and a length-delimited and a fixed64 field with too few bytes
BadFields == {<<104, 128>>, <<106, 128>>, <<106, 100, 1>>, <<105, 1>>}

PartialLevels == {"FromRadio", "Mesh", "Data", "RemoteHw"}

\* FromRadio{packet: MeshPacket{from: 7, channel: 1, decoded: Data{portnum: 2,
\* payload: HardwareMessage{gpio_mask: 5}}}} with the bad field as the last
\* field of the message at level p.level; the messages above the Data
\* message end where it fails
PartialChunk(p) ==
    LET hw   == <<16, 5>> \o (IF p.level = "RemoteHw" THEN p.bad ELSE <<>>)
        dat  == <<8, 2>> \o Wrap(18, hw) \o (IF p.level = "Data" THEN p.bad ELSE <<>>)
        mesh == <<8, 7, 24, 1>>
                \o (IF p.level \in {"Data", "RemoteHw"} THEN Wrap(34, dat) ELSE <<>>)
                \o (IF p.level = "Mesh" THEN p.bad ELSE <<>>)
    IN  Wrap(18, mesh) \o (IF p.level = "FromRadio" THEN p.bad ELSE <<>>)

\* port numbers: those around the table, 99999 and 2^32 - 1
PortNumbers == {W(n) : n \in 0..300} \cup {W(99999), Broadcast}

\* node ids that get a record (0x2a, 0xabcdef12) and one that never does
KnownNodes == {W(42), LEWord(<<18, 239, 205, 171>>)}
LookupNodes == KnownNodes \cup {Zero64}

\* "" and "!0000002a"
IdStrings == {<<>>, <<33, 48, 48, 48, 48, 48, 48, 50, 97>>}

\* "", "Al", a tab, and " Long\tname!x " (a tab inside, a space at each end)
LongNames == {<<>>, <<65, 108>>, <<9>>,
              <<32, 76, 111, 110, 103, 9, 110, 97, 109, 101, 33, 120, 32>>}

\* "" and " S\x7f1"
ShortNames == {<<>>, <<32, 83, 127, 49>>}

\* a chunk no earlier path accepts, with a 16-byte header and a payload
LegacyChunk == <<7, 0, 0, 0, 1, 0, 0, 0, 2, 0, 0, 0, 0, 0, 3, 0>> \o TextChunk

BraceText == <<123, 120, 125>>
OwnerText == <<111, 119, 110, 101, 114, 58, 32, 65, 108, 32, 40, 65, 41, 32, 33, 48, 48, 48, 48, 48, 48, 50, 97>>

\* "gps", too short for the legacy header
GpsText == <<103, 112, 115>>

\* what may follow the tag byte 0x0D in a payload: nothing, one byte, a
\* fixed32 alone, a fixed32 and then a well-formed long_name, text, and a
\* fixed32 and then a name or nothing followed by a byte that is no field
AfterTag ==
    {<<>>, <<1>>, <<0, 0, 0, 0>>, <<10, 2, 65, 108>>,
     <<0, 0, 0, 0, 18, 2, 65, 108>>, <<0, 0, 0, 0, 18, 2, 65, 108, 255>>,
     <<0, 0, 0, 0, 255>>, <<0, 0, 0, 0, 10, 1, 65, 7>>,
     <<0, 0, 0, 0, 26, 1, 83, 255>>, <<98, 97, 116, 116, 101, 114, 121>>}

\* the legacy header of LegacyChunk and a payload that begins with 0x0D
TagChunks == {SubSeq(LegacyChunk, 1, 16) \o <<13>> \o r : r \in AfterTag}

\* payloads for inferPacketType.  A Position message; a Telemetry message
\* with empty device_metrics; a User message with long_name "Al"; a
\* Position message followed by that long_name; a byte that is no field
\* followed by each kind of tag byte, or by a tag byte beyond the tenth
\* byte; "{battery:12}", "{gps}", "battery", "gps", "gps battery", "hi";
\* ten bytes of which seven and of which eight are printable; two bytes
\* that are not; and no payload at all
InferPayloads ==
    {<<13, 0, 0, 0, 0>>, <<18, 0>>, <<18, 2, 65, 108>>,
     <<13, 0, 0, 0, 0, 18, 2, 65, 108>>,
     <<255, 13>>, <<255, 10>>, <<255, 8>>, <<255, 18>>, <<255, 18, 13>>,
     <<255, 255, 255, 255, 255, 255, 255, 255, 255, 255, 10>>,
     <<123, 98, 97, 116, 116, 101, 114, 121, 58, 49, 50, 125>>,
     <<123, 103, 112, 115, 125>>,
     <<98, 97, 116, 116, 101, 114, 121>>, <<103, 112, 115>>,
     <<103, 112, 115, 32, 98, 97, 116, 116, 101, 114, 121>>,
     <<104, 105>>,
     <<1, 2, 3, 104, 104, 104, 104, 104, 104, 104>>,
     <<1, 2, 104, 104, 104, 104, 104, 104, 104, 104>>,
     <<1, 2>>, <<>>}

\* the legacy header of LegacyChunk and one of these payloads
InferChunks == {SubSeq(LegacyChunk, 1, 16) \o p : p \in InferPayloads}

\* one field of each FromRadio variant: packet (2) with a text "hi" from
\* node 7, my_info (3), node_info (4) of node 42 "Al", config (5) and
\* log_record (6)
VariantFields ==
    {Wrap(18, <<8, 7>> \o Wrap(34, <<8, 1, 18, 2, 104, 105>>)),
     Wrap(26, <<8, 1>>),
     Wrap(34, <<8, 42, 18, 4, 18, 2, 65, 108>>),
     Wrap(42, <<8, 1>>),
     Wrap(50, <<8, 1>>)}

\* envelopes of one variant field and of two
VariantChunks == VariantFields \cup {f \o g : f, g \in VariantFields}

\* "", "Te", "abc", "Test", "Short", "VeryLongUsername", a tab, and
\* " A\tbcde " (a tab inside, a space at each end)
DisplayStrings ==
    {<<>>, <<84, 101>>, <<97, 98, 99>>, <<84, 101, 115, 116>>,
     <<83, 104, 111, 114, 116>>,
     <<86, 101, 114, 121, 76, 111, 110, 103, 85, 115, 101, 114, 110, 97, 109, 101>>,
     <<9>>, <<32, 65, 9, 98, 99, 100, 101, 32>>}

DisplayWidths == (0 - 1)..17

\* payloads of well-formed frames: none, two bytes, the two preamble
\* bytes, "hi", a node record, and one of 512 bytes: a FromRadio message
\* that is one unknown field 15 holding 509 letters "o"
LongPayload == <<122, 253, 3>> \o [i \in 1..(MAX_TO_FROM_RADIO_SIZE - 3) |-> 111]
ShortPayloads == {<<>>, <<0, 2>>, <<START1, START2>>, TextChunk, NodeInfoChunk}

\* a frame as the radio sends it: the preamble, the length big-endian,
\* the payload
Framed(p) == <<START1, START2, Len(p) \div 256, Len(p) % 256>> \o p

RECURSIVE Flat(_)
Flat(ps) == IF ps = <<>> THEN <<>> ELSE Framed(ps[1]) \o Flat(Tail(ps))

\* streams of one to MaxFrames short frames, and of one long frame with or
\* without a short one before or after it
FrameStreams ==
    UNION {[1..n -> ShortPayloads] : n \in 1..MaxFrames}
    \cup {<<LongPayload>>}
    \cup {<<LongPayload, p>> : p \in ShortPayloads}
    \cup {<<p, LongPayload>> : p \in ShortPayloads}

\* JSON documents: an object with or without a "timestamp", a "type" (the
\* string "device_status", another string, a number) and a "device_info"
\* (the empty object, a number, null), in either order, with or without a
\* line feed after it
JsonParams ==
    [type : {"status", "other", "number", "none"},
     info : {"object", "number", "null", "none"},
     stamp : BOOLEAN, infoFirst : BOOLEAN, tail : {<<>>, <<10>>}]

JStr(t) == <<34>> \o t \o <<34>>

RECURSIVE Joined(_)
Joined(ms) ==
    IF ms = <<>> THEN <<>>
    ELSE IF Len(ms) = 1 THEN ms[1]
    ELSE ms[1] \o <<44>> \o Joined(Tail(ms))

JsonChunk(p) ==
    LET stamp == IF p.stamp THEN << JStr(JsonWord.timestamp) \o <<58, 53>> >> ELSE <<>>
        type  == IF p.type = "none" THEN <<>>
                 ELSE << JStr(JsonWord.type) \o <<58>> \o
                         (IF p.type = "status" THEN JStr(JsonWord.device_status)
                          ELSE IF p.type = "other" THEN JStr(JsonWord.device_info)
                          ELSE <<49>>) >>
        info  == IF p.info = "none" THEN <<>>
                 ELSE << JStr(JsonWord.device_info) \o <<58>> \o
                         (IF p.info = "object" THEN <<123, 125>>
                          ELSE IF p.info = "null" THEN JsonWord.null
                          ELSE <<49>>) >>
    IN  <<123>> \o Joined(stamp \o (IF p.infoFirst THEN info \o type ELSE type \o info))
        \o <<125>> \o p.tail

JsonChunks == {JsonChunk(p) : p \in JsonParams}

\* FromRadio{id: 1} and then an unknown field 1 of declared length 2^64 - 13
BackwardChunk == <<8, 1, 10>> \o appendVarint(<<>>, NegWord(13))

DecodeChunks ==
    OneField
    \cup {Wrap(18, f) : f \in {g \in OneField : Len(g) <= 7}}
    \cup {Wrap(34, f) : f \in {g \in OneField : Len(g) <= 7}}
    \cup {Wrap(18, <<8, 7>> \o Wrap(34, d)) : d \in DataSamples}
    \cup {StatusDoc, NodeInfoChunk, TextChunk, BlankChunk, LegacyChunk,
          BraceText, OwnerText, GpsText, BackwardChunk}

\* no helper has been called directly
NoProbe == [op |-> "none"]

-----------------------------------------------------------------------------
(* Actions *)

\* the client after one Start: started, the channel open, one listener and
\* one processPackets goroutine (whose position is cpc)
Running ==
    [started |-> TRUE, closed |-> FALSE, listeners |-> 1, consumers |-> <<>>,
     calls |-> 1, last |-> "start", ret |-> "ok", fault |-> "none"]

\* the client and its transports as NewClient and the constructors leave them
Fresh ==
    /\ stream = <<>>
    /\ heap = [serial |-> <<>>, tcp |-> <<>>]
    /\ rxBuf = [arr |-> -1, len |-> 0, cap |-> 0]
    /\ frames = <<>>
    /\ tpc = "run"
    /\ m = Idle
    /\ packets = <<>>
    /\ nsub = 0
    /\ dropped = 0
    /\ cpc = "recv"
    /\ cur = NoEntry
    /\ stats = [TotalPackets |-> 0, PacketsByType |-> <<>>, PacketsByChannel |-> <<>>,
                LastPacketTime |-> [clock |-> 0, unix |-> Zero64],
                AverageRSSI |-> F32Zero, AverageSNR |-> F32Zero]
    /\ nodeDB = <<>>
    /\ subs = {}
    /\ pending = {}
    /\ delivered = {}
    /\ life = Running
    /\ offered = 0
    /\ dbDone = 0

Init == Fresh /\ probe = NoProbe

\* The channel after the packets `outs` of a chunk have been offered in turn
RECURSIVE SendAll(_, _, _, _, _)
SendAll(q, outs, ref, B, sn) ==
    IF outs = <<>> THEN q
    ELSE LET q1 == TrySend(q, Entry(outs[1], ref, B, sn))
         IN  SendAll(q1, Tail(outs), ref, B, IF Len(q1) > Len(q) THEN sn + 1 ELSE sn)

\* What handleRawData does to the client: the packets `outs` are offered
\* to the channel (and dropped when it is full), the node directory writes
\* `dbs` of the text path are made, and the calling transport task dies
\* with the process on a panic
Effects(outs, dbs, st, ref, B) ==
    LET q == SendAll(packets, outs, ref, B, offered - dropped + 1)
    IN  /\ packets' = q
        /\ offered' = offered + Len(outs)
        /\ dropped' = dropped + Len(outs) - (Len(q) - Len(packets))
        /\ nodeDB' = ApplyWrites(nodeDB, dbs)
        /\ tpc' = IF st = "panic" THEN "crashed" ELSE IF st = "run" THEN "stuck" ELSE tpc

\* handler(data) has run as the decode machine mm describes
Handled(mm, ref, B) == Effects(mm.out, mm.db, mm.st, ref, B)

\* serial.StartPacketListener: one Read into `buffer` and the handler call
SerialRead(c, limit) ==
    /\ tpc = "run"
    /\ nsub < limit
    /\ Handled(RunWalk(Start(c, 1), Fuel), [arr |-> 0, lo |-> 0, hi |-> Len(c)], c)
    /\ heap' = SerialFill(heap, c)
    /\ nsub' = nsub + 1
    /\ UNCHANGED <<life, stream, rxBuf, frames, m, cpc, cur, stats, subs, pending,
                   delivered, dbDone, probe>>

Submit == \E c \in PipelineChunks : SerialRead(c, MaxSubmits)

Burst == \E c \in BurstChunks : SerialRead(c, MaxBurst)

\* a burst that begins with chunks of different types and channels
StatsBurst ==
    \E c \in (IF nsub < MaxVaried THEN StatsChunks ELSE BurstChunks) :
        SerialRead(c, MaxBurst)

\* the serial listener reads a packet with signal readings
SignalSubmit == \E c \in SignalChunks : SerialRead(c, MaxSubmits)

\* a value, the buffer it is to be appended to and the bytes to follow
InitVarint ==
    /\ Fresh
    /\ probe \in [op : {"value"}, v : VarintValues, pre : VarintPrefixes,
                   suf : VarintSuffixes]

\* data = c.appendVarint(data, value), then more bytes are appended
VarintEncode ==
    /\ probe.op = "value"
    /\ probe' = [op |-> "encoded", v |-> probe.v, pre |-> probe.pre,
                 enc |-> appendVarint(probe.pre, probe.v), suf |-> probe.suf]
    /\ UNCHANGED <<life, stream, heap, rxBuf, frames, tpc, m, packets, nsub, dropped,
                   cpc, cur, stats, nodeDB, subs, pending, delivered, offered, dbDone>>

\* the value is read back, by readVarintAt and by readVarint, at the
\* offset it was written at
VarintDecode ==
    /\ probe.op = "encoded"
    /\ probe' = [op |-> "decoded", v |-> probe.v, pre |-> probe.pre,
                 enc |-> probe.enc, suf |-> probe.suf,
                 at |-> readVarintAt(probe.enc \o probe.suf, Len(probe.pre)),
                 pos |-> readVarint(probe.enc \o probe.suf, Len(probe.pre))]
    /\ UNCHANGED <<life, stream, heap, rxBuf, frames, tpc, m, packets, nsub, dropped,
                   cpc, cur, stats, nodeDB, subs, pending, delivered, offered, dbDone>>

\* a buffer, an offset into it and the wire type of the field there
InitSkip ==
    /\ Fresh
    /\ probe \in [op : {"field"}, data : SkipBuffers, offset : SkipOffsets,
                   wireType : WireTypes]

\* offset = c.skipField(data, offset, wireType), and skipPositionField
Skip ==
    /\ probe.op = "field"
    /\ probe' = [op |-> "skipped", data |-> probe.data, offset |-> probe.offset,
                 wireType |-> probe.wireType,
                 at |-> skipField(probe.data, probe.offset, probe.wireType),
                 pos |-> skipPositionField(probe.data, probe.offset, probe.wireType)]
    /\ UNCHANGED <<life, stream, heap, rxBuf, frames, tpc, m, packets, nsub, dropped,
                   cpc, cur, stats, nodeDB, subs, pending, delivered, offered, dbDone>>

\* a reset that leaves the buffer as it is
KeepBuf(rx) == rx

\* c.rxBuf = c.rxBuf[:0]
ResetBuf(rx) == [rx EXCEPT !.len = 0]

\* a length check that lets every length pass
NeverTooLong(packetLen) == FALSE

\* packetLen > MAX_TO_FROM_RADIO_SIZE
TooLong(packetLen) == packetLen > MAX_TO_FROM_RADIO_SIZE

\* a payload slice that starts one byte early
PayloadRefEarly(arr, packetLen) ==
    [arr |-> arr, lo |-> HEADER_LEN - 1, hi |-> HEADER_LEN - 1 + packetLen]

\* c.rxBuf[HEADER_LEN : HEADER_LEN+packetLen]
PayloadRef(arr, packetLen) ==
    [arr |-> arr, lo |-> HEADER_LEN, hi |-> HEADER_LEN + packetLen]

\* tcp.Connection.processByte for the byte b read by streamReader.  frames
\* records each payload handed to the handler and the number of bytes read
\* from the stream when it was
processByte(b) ==
    LET ptr == rxBuf.len
        a   == AppendByte(heap, rxBuf, b)
        buf == Deref(a.h, [arr |-> a.rx.arr, lo |-> 0, hi |-> a.rx.len])
        packetLen == buf[3] * 256 + buf[4]
        ref == PayloadRef(a.rx.arr, packetLen)
        payload == Deref(a.h, ref)
        quiet == /\ frames' = frames
                 /\ UNCHANGED <<life, packets, offered, dropped, nodeDB, tpc, nsub>>
    IN  /\ heap' = a.h
        /\ IF ptr = 0 THEN rxBuf' = (IF b # START1 THEN ResetBuf(a.rx) ELSE a.rx) /\ quiet
           ELSE IF ptr = 1 THEN rxBuf' = (IF b # START2 THEN ResetBuf(a.rx) ELSE a.rx) /\ quiet
           ELSE IF ptr >= HEADER_LEN - 1
           THEN IF ptr = HEADER_LEN - 1 /\ TooLong(packetLen)
                THEN rxBuf' = ResetBuf(a.rx) /\ quiet
                ELSE IF a.rx.len >= packetLen + HEADER_LEN
                THEN /\ frames' = Append(frames, [payload |-> payload,
                                                  at |-> Len(stream) + 1])
                     /\ Handled(RunWalk(Start(payload, 1), Fuel), ref, payload)
                     /\ nsub' = nsub + 1
                     /\ rxBuf' = ResetBuf(a.rx)
                ELSE rxBuf' = a.rx /\ quiet
           ELSE rxBuf' = a.rx /\ quiet

ReadByte ==
    /\ tpc = "run"
    /\ Len(stream) < MaxStream
    /\ \E b \in StreamBytes :
          /\ stream' = Append(stream, b)
          /\ processByte(b)
    /\ UNCHANGED <<life, m, cpc, cur, stats, subs, pending, delivered, dbDone, probe>>

\* The serial listener has read the chunk c and called the handler
Handling(c) ==
    /\ heap = [serial |-> c, tcp |-> <<>>]
    /\ m = Start(c, 1)
    /\ nsub = 1
    /\ stream = <<>>
    /\ rxBuf = [arr |-> -1, len |-> 0, cap |-> 0]
    /\ frames = <<>>
    /\ tpc = "run"
    /\ packets = <<>>
    /\ dropped = 0
    /\ cpc = "recv"
    /\ cur = NoEntry
    /\ stats = [TotalPackets |-> 0, PacketsByType |-> <<>>, PacketsByChannel |-> <<>>,
                LastPacketTime |-> [clock |-> 0, unix |-> Zero64],
                AverageRSSI |-> F32Zero, AverageSNR |-> F32Zero]
    /\ nodeDB = <<>>
    /\ subs = {}
    /\ pending = {}
    /\ delivered = {}
    /\ life = Running
    /\ offered = 0
    /\ dbDone = 0

InitDecode == \E c \in DecodeChunks : Handling(c) /\ probe = NoProbe

\* a JSON document is about to be handled
InitJSON == \E c \in JsonChunks : Handling(c) /\ probe = NoProbe

\* a legacy packet whose payload begins with 0x0D is about to be handled
InitTag == \E c \in TagChunks : Handling(c) /\ probe = NoProbe

\* a legacy packet whose payload carries no port number is about to be
\* handled
InitInfer == \E c \in InferChunks : Handling(c) /\ probe = NoProbe

\* an envelope with fields of one or two variants is about to be handled
InitVariants == \E c \in VariantChunks : Handling(c) /\ probe = NoProbe

\* a mesh packet that begins with a field of two tag bytes is about to be
\* handled
InitTwoByte == \E c \in FollowedChunks : Handling(c) /\ probe = NoProbe

\* the statistics of a new client, with their maps as objects 1 and 2
InitSnapshot ==
    /\ Fresh
    /\ probe = [op |-> "stats", h |-> << <<>>, <<>> >>,
                agg |-> [stats EXCEPT !.PacketsByType = 1, !.PacketsByChannel = 2],
                aggIs |-> stats, snaps |-> <<>>, writes |-> 0]

\* the consumer records a packet
RecordPacket ==
    /\ probe.agg.TotalPackets < MaxRecorded
    /\ \E t \in {"TEXT", "POSITION"}, ch \in {0, 1} :
          LET pkt == [NewPacket(probe.agg.TotalPackets + 1) EXCEPT
                         !.Type = t, !.Channel = ch]
              r   == RecordIn(probe.h, probe.agg, pkt)
          IN  probe' = [probe EXCEPT !.h = r.h, !.agg = r.s,
                                     !.aggIs = updateStatistics(probe.aggIs, pkt)]
    /\ UNCHANGED <<life, stream, heap, rxBuf, frames, tpc, m, packets, nsub, dropped,
                   cpc, cur, stats, nodeDB, subs, pending, delivered, offered, dbDone>>

\* a reader calls GetStatistics and keeps the result
TakeSnapshot ==
    /\ Len(probe.snaps) < MaxSnapshots
    /\ LET r == MakeSnapshot(probe.h, probe.agg)
       IN  probe' = [probe EXCEPT !.h = r.h,
                        !.snaps = Append(probe.snaps,
                                         [s |-> r.s, is |-> StatsAt(r.h, r.s)])]
    /\ UNCHANGED <<life, stream, heap, rxBuf, frames, tpc, m, packets, nsub, dropped,
                   cpc, cur, stats, nodeDB, subs, pending, delivered, offered, dbDone>>

\* the reader writes an entry of one of the maps of a snapshot
WriteSnapshot ==
    /\ probe.writes < MaxWrites
    /\ \E i \in 1..Len(probe.snaps) :
          LET sn == probe.snaps[i]
          IN  \/ probe' = [probe EXCEPT
                    !.h[sn.s.PacketsByType] = [x \in DOMAIN @ \cup {"TEXT"} |->
                                                  IF x = "TEXT" THEN 99 ELSE @[x]],
                    !.snaps[i].is.PacketsByType = [x \in DOMAIN @ \cup {"TEXT"} |->
                                                  IF x = "TEXT" THEN 99 ELSE @[x]],
                    !.writes = @ + 1]
              \/ probe' = [probe EXCEPT
                    !.h[sn.s.PacketsByChannel] = [x \in DOMAIN @ \cup {1} |->
                                                  IF x = 1 THEN 99 ELSE @[x]],
                    !.snaps[i].is.PacketsByChannel = [x \in DOMAIN @ \cup {1} |->
                                                  IF x = 1 THEN 99 ELSE @[x]],
                    !.writes = @ + 1]
    /\ UNCHANGED <<life, stream, heap, rxBuf, frames, tpc, m, packets, nsub, dropped,
                   cpc, cur, stats, nodeDB, subs, pending, delivered, offered, dbDone>>

\* a string and the width it is to be shown in
InitTruncate ==
    /\ Fresh
    /\ probe \in [op : {"truncate"}, s : DisplayStrings, maxWidth : DisplayWidths]

\* utils.TruncateForDisplay(s, maxWidth)
Truncate ==
    /\ probe.op = "truncate"
    /\ probe' = [op |-> "truncated", s |-> probe.s, maxWidth |-> probe.maxWidth,
                 result |-> TruncateForDisplay(probe.s, probe.maxWidth)]
    /\ UNCHANGED <<life, stream, heap, rxBuf, frames, tpc, m, packets, nsub, dropped,
                   cpc, cur, stats, nodeDB, subs, pending, delivered, offered, dbDone>>

\* the peer is about to send a stream of well-formed frames
InitFrames ==
    /\ Fresh
    /\ probe \in [op : {"frames"}, input : FrameStreams]

\* tcp.Connection.streamReader reads the next byte the peer sent
FeedByte ==
    /\ tpc = "run"
    /\ probe.op = "frames"
    /\ Len(stream) < Len(Flat(probe.input))
    /\ LET b == Flat(probe.input)[Len(stream) + 1]
       IN  /\ stream' = Append(stream, b)
           /\ processByte(b)
    /\ UNCHANGED <<life, m, cpc, cur, stats, subs, pending, delivered, dbDone, probe>>

\* the packet handleRawData makes of the chunk c
PacketOf(c) == RunWalk(Start(c, 1), Fuel).out[1]

\* the client after QueueCapacity text chunks have been read and queued
\* while the consumer had not yet run: the channel is full of the packets
\* handleTextData makes of the chunk
InitFull ==
    /\ stream = <<>>
    /\ heap = [serial |-> TextChunk, tcp |-> <<>>]
    /\ rxBuf = [arr |-> -1, len |-> 0, cap |-> 0]
    /\ frames = <<>>
    /\ tpc = "run"
    /\ m = Idle
    /\ packets = [i \in 1..QueueCapacity |->
                     Entry(handleTextData(TextChunk, 1).out[1],
                           [arr |-> 0, lo |-> 0, hi |-> Len(TextChunk)],
                           TextChunk, i)]
    /\ nsub = QueueCapacity
    /\ dropped = 0
    /\ cpc = "recv"
    /\ cur = NoEntry
    /\ stats = [TotalPackets |-> 0, PacketsByType |-> <<>>, PacketsByChannel |-> <<>>,
                LastPacketTime |-> [clock |-> 0, unix |-> Zero64],
                AverageRSSI |-> F32Zero, AverageSNR |-> F32Zero]
    /\ nodeDB = <<>>
    /\ subs = {}
    /\ pending = {}
    /\ delivered = {}
    /\ life = Running
    /\ offered = QueueCapacity
    /\ dbDone = 0
    /\ probe = NoProbe

\* a port number read from a Data message
InitPort ==
    /\ Fresh
    /\ probe \in [op : {"port"}, portnum : PortNumbers]

\* `if packetType, exists := PortNumToPacketType[portnum]; exists { ... } else
\* { packet.Type = PacketTypeUnknown }`
Resolve ==
    /\ probe.op = "port"
    /\ probe' = [op |-> "resolved", portnum |-> probe.portnum,
                 Type |-> PortNumToPacketType(probe.portnum)]
    /\ UNCHANGED <<life, stream, heap, rxBuf, frames, tpc, m, packets, nsub, dropped,
                   cpc, cur, stats, nodeDB, subs, pending, delivered, offered, dbDone>>

\* c.nodeDB.AddOrUpdateUserInfo(nodeID, id, longName, shortName); the
\* directory as it was is kept with the arguments
UpdateUser ==
    /\ \E n \in KnownNodes, id \in IdStrings, long \in LongNames, short \in ShortNames :
          /\ nodeDB' = AddOrUpdateUserInfo(nodeDB, [node |-> n, id |-> id,
                                                    long |-> long, short |-> short])
          /\ probe' = [op |-> "update", node |-> n, id |-> id, long |-> long,
                       short |-> short, before |-> nodeDB]
    /\ UNCHANGED <<life, stream, heap, rxBuf, frames, tpc, m, packets, nsub, dropped,
                   cpc, cur, stats, subs, pending, delivered, offered, dbDone>>

\* c.nodeDB.GetNodeName(nodeID) and c.nodeDB.GetNodeShortName(nodeID)
ResolveNames ==
    /\ \E n \in LookupNodes :
          probe' = [op |-> "names", node |-> n, name |-> GetNodeName(nodeDB, n),
                    short |-> GetNodeShortName(nodeDB, n)]
    /\ UNCHANGED <<life, stream, heap, rxBuf, frames, tpc, m, packets, nsub, dropped,
                   cpc, cur, stats, nodeDB, subs, pending, delivered, offered, dbDone>>

\* a message one of whose levels ends in a field that cannot be read
InitPartial ==
    \E p \in [op : {"partial"}, level : PartialLevels, bad : BadFields] :
        /\ probe = p
        /\ Handling(PartialChunk(p))

\* a message with a known varint field of value v and an unknown
\* length-delimited field, in a packet handed to the handler
InitUnknown ==
    \E p \in [op : {"message"}, in : {"Data", "RemoteHw"}, known : KnownValues,
               number : UnknownNumbers, content : UnknownContents,
               first : {"known", "unknown"}] :
        /\ probe = p
        /\ Handling(UnknownChunk(p))

\* the step from machine state m to mm, and what it does to the client
Stepped(mm) ==
    /\ m' = mm
    /\ Effects(SubSeq(mm.out, Len(m.out) + 1, Len(mm.out)),
               SubSeq(mm.db, Len(m.db) + 1, Len(mm.db)),
               IF mm.st = "panic" THEN "panic" ELSE "returned",
               [arr |-> 0, lo |-> 0, hi |-> Len(m.B)], m.B)

\* handleRawData takes one step
WalkStep ==
    /\ tpc = "run"
    /\ m.st = "run"
    /\ Stepped(Step(m))
    /\ UNCHANGED <<life, stream, heap, rxBuf, frames, nsub, cpc, cur, stats, subs,
                   pending, delivered, dbDone, probe>>

\* Client.Subscribe
Subscribe ==
    /\ tpc # "crashed"
    /\ Cardinality(subs) < MaxSubscribers
    /\ subs' = subs \cup {Cardinality(subs) + 1}
    /\ UNCHANGED <<life, stream, heap, rxBuf, frames, tpc, m, packets, nsub, dropped,
                   cpc, cur, stats, nodeDB, pending, delivered, offered, dbDone, probe>>

\* a consumer that takes the next packet only once every handler started
\* so far has returned
ReceiveAfterHandlers ==
    /\ tpc # "crashed"
    /\ cpc = "recv"
    /\ pending = {}
    /\ packets # <<>>
    /\ cur' = Head(packets)
    /\ packets' = Tail(packets)
    /\ cpc' = "stats"
    /\ UNCHANGED <<life, stream, heap, rxBuf, frames, tpc, m, nsub, dropped, stats,
                   nodeDB, subs, pending, delivered, offered, dbDone, probe>>

\* Client.processPackets: `for packet := range c.packets`
Receive ==
    /\ tpc # "crashed"
    /\ cpc = "recv"
    /\ packets # <<>>
    /\ cur' = Head(packets)
    /\ packets' = Tail(packets)
    /\ cpc' = "stats"
    /\ UNCHANGED <<life, stream, heap, rxBuf, frames, tpc, m, nsub, dropped, stats,
                   nodeDB, subs, pending, delivered, offered, dbDone, probe>>

\* ... c.updateStatistics(packet)
UpdateStatistics ==
    /\ tpc # "crashed"
    /\ cpc = "stats"
    /\ stats' = updateStatistics(stats, cur.p)
    /\ cpc' = "nodedb"
    /\ UNCHANGED <<life, stream, heap, rxBuf, frames, tpc, m, packets, nsub, dropped,
                   cur, nodeDB, subs, pending, delivered, offered, dbDone, probe>>

\* ... c.updateNodeDB(packet)
UpdateNodeDB ==
    /\ tpc # "crashed"
    /\ cpc = "nodedb"
    /\ nodeDB' = updateNodeDB(nodeDB, cur.p)
    /\ dbDone' = dbDone + 1
    /\ cpc' = "dispatch"
    /\ UNCHANGED <<life, stream, heap, rxBuf, frames, tpc, m, packets, nsub, dropped,
                   cur, stats, subs, pending, delivered, offered, probe>>

\* a dispatch to every subscriber there can be, registered or not
DispatchAll ==
    /\ tpc # "crashed"
    /\ cpc = "dispatch"
    /\ pending' = pending \cup {[sub |-> x, sn |-> cur.sn] : x \in 1..MaxSubscribers}
    /\ cpc' = "recv"
    /\ UNCHANGED <<life, stream, heap, rxBuf, frames, tpc, m, packets, nsub, dropped,
                   cur, stats, nodeDB, subs, delivered, offered, dbDone, probe>>

\* ... `go subscriber.OnPacket(packet)` for every subscriber
Dispatch ==
    /\ tpc # "crashed"
    /\ cpc = "dispatch"
    /\ pending' = pending \cup {[sub |-> x, sn |-> cur.sn] : x \in subs}
    /\ cpc' = "recv"
    /\ UNCHANGED <<life, stream, heap, rxBuf, frames, tpc, m, packets, nsub, dropped,
                   cur, stats, nodeDB, subs, delivered, offered, dbDone, probe>>

\* one of the goroutines started by Dispatch runs subscriber.OnPacket
OnPacket ==
    /\ tpc # "crashed"
    /\ \E g \in pending :
          /\ pending' = pending \ {g}
          /\ delivered' = delivered \cup {g}
    /\ UNCHANGED <<life, stream, heap, rxBuf, frames, tpc, m, packets, nsub, dropped,
                   cpc, cur, stats, nodeDB, subs, offered, dbDone, probe>>

Next ==
    \/ Submit
    \/ Subscribe
    \/ Receive
    \/ UpdateStatistics
    \/ UpdateNodeDB
    \/ Dispatch
    \/ OnPacket

\* the consumer takes one of the first MaxHandled packets
ReceiveSome ==
    /\ dbDone < MaxHandled
    /\ Receive

NextFan ==
    \/ Burst
    \/ Subscribe
    \/ ReceiveSome
    \/ UpdateStatistics
    \/ UpdateNodeDB
    \/ Dispatch
    \/ OnPacket

\* the client as NewClient leaves it: not started, no goroutine launched
NotStarted ==
    [started |-> FALSE, closed |-> FALSE, listeners |-> 0, consumers |-> <<>>,
     calls |-> 0, last |-> "none", ret |-> "none", fault |-> "none"]

InitLife ==
    /\ stream = <<>>
    /\ heap = [serial |-> <<>>, tcp |-> <<>>]
    /\ rxBuf = [arr |-> -1, len |-> 0, cap |-> 0]
    /\ frames = <<>>
    /\ tpc = "run"
    /\ m = Idle
    /\ packets = <<>>
    /\ nsub = 0
    /\ dropped = 0
    /\ cpc = "recv"
    /\ cur = NoEntry
    /\ stats = [TotalPackets |-> 0, PacketsByType |-> <<>>, PacketsByChannel |-> <<>>,
                LastPacketTime |-> [clock |-> 0, unix |-> Zero64],
                AverageRSSI |-> F32Zero, AverageSNR |-> F32Zero]
    /\ nodeDB = <<>>
    /\ subs = {}
    /\ pending = {}
    /\ delivered = {}
    /\ offered = 0
    /\ dbDone = 0
    /\ probe = NoProbe
    /\ life = NotStarted

\* the call is counted and its result kept; fault is the run-time panic of
\* the channel operation that ended the program, if any
Called(l, name, ret) ==
    [l EXCEPT !.calls = l.calls + 1, !.last = name, !.ret = ret]

\* Client.Start, under c.mu: an error when started, else a listener and a
\* processPackets goroutine are launched and started is set.  The channel
\* is the one NewClient made
StartCall ==
    /\ tpc = "run"
    /\ life.calls < MaxCalls
    /\ life' = IF life.started THEN Called(life, "start", "error")
               ELSE Called([life EXCEPT !.started = TRUE,
                                        !.listeners = life.listeners + 1,
                                        !.consumers = Append(life.consumers,
                                                         [pc |-> "recv", cur |-> NoEntry])],
                           "start", "ok")
    /\ UNCHANGED <<stream, heap, rxBuf, frames, tpc, m, packets, nsub, dropped,
                   cpc, cur, stats, nodeDB, subs, pending, delivered, offered,
                   dbDone, probe>>

\* Client.Stop, under c.mu: nothing when not started, else close(c.packets)
\* and started is cleared.  Closing a closed channel panics
StopCall ==
    /\ tpc = "run"
    /\ life.calls < MaxCalls
    /\ IF ~life.started
       THEN life' = Called(life, "stop", "ok") /\ tpc' = tpc
       ELSE IF life.closed
            THEN /\ life' = [Called(life, "stop", "none") EXCEPT !.fault = "close"]
                 /\ tpc' = "crashed"
            ELSE /\ life' = Called([life EXCEPT !.closed = TRUE, !.started = FALSE],
                                   "stop", "ok")
                 /\ tpc' = tpc
    /\ UNCHANGED <<stream, heap, rxBuf, frames, m, packets, nsub, dropped,
                   cpc, cur, stats, nodeDB, subs, pending, delivered, offered,
                   dbDone, probe>>

\* the sends of one handleRawData call, each a select with a default case:
\* on a closed channel the send case is chosen and panics
HandledOn(l, mm, ref, B) ==
    IF l.closed /\ mm.out # <<>>
    THEN /\ tpc' = "crashed"
         /\ life' = [l EXCEPT !.fault = "send"]
         /\ nodeDB' = ApplyWrites(nodeDB, mm.db)
         /\ UNCHANGED <<packets, offered, dropped>>
    ELSE /\ Handled(mm, ref, B)
         /\ life' = l

\* a listener goroutine launched by Start reads a chunk and calls
\* handleRawData; time.Now() advances by one from read to read
ListenerRead ==
    /\ life.listeners >= 1
    /\ tpc = "run"
    /\ nsub < MaxQueued
    /\ \E c \in BurstChunks :
          /\ HandledOn(life, RunWalk(Start(c, nsub + 1), Fuel),
                       [arr |-> 0, lo |-> 0, hi |-> Len(c)], c)
          /\ heap' = SerialFill(heap, c)
    /\ nsub' = nsub + 1
    /\ UNCHANGED <<stream, rxBuf, frames, m, cpc, cur, stats, subs, pending,
                   delivered, dbDone, probe>>

\* processPackets goroutine i at `for packet := range c.packets`: it takes
\* the head, or ends when the channel is closed and empty
ConsumerTake(i) ==
    /\ tpc = "run"
    /\ life.consumers[i].pc = "recv"
    /\ IF packets # <<>>
       THEN /\ life' = [life EXCEPT !.consumers[i] = [pc |-> "busy", cur |-> Head(packets)]]
            /\ packets' = Tail(packets)
       ELSE /\ life.closed
            /\ life' = [life EXCEPT !.consumers[i] = [pc |-> "done", cur |-> NoEntry]]
            /\ packets' = packets
    /\ UNCHANGED <<stream, heap, rxBuf, frames, tpc, m, nsub, dropped, cpc, cur,
                   stats, nodeDB, subs, pending, delivered, offered, dbDone, probe>>

\* processPackets goroutine i runs the loop body on its packet
ConsumerBody(i) ==
    /\ tpc = "run"
    /\ life.consumers[i].pc = "busy"
    /\ stats' = updateStatistics(stats, life.consumers[i].cur.p)
    /\ nodeDB' = updateNodeDB(nodeDB, life.consumers[i].cur.p)
    /\ dbDone' = dbDone + 1
    /\ pending' = pending \cup {[sub |-> x, sn |-> life.consumers[i].cur.sn] : x \in subs}
    /\ life' = [life EXCEPT !.consumers[i] = [pc |-> "recv", cur |-> NoEntry]]
    /\ UNCHANGED <<stream, heap, rxBuf, frames, tpc, m, packets, nsub, dropped,
                   cpc, cur, subs, delivered, offered, probe>>

TaskTake == \E i \in 1..Len(life.consumers) : ConsumerTake(i)

TaskBody == \E i \in 1..Len(life.consumers) : ConsumerBody(i)

NextLife ==
    \/ StartCall
    \/ StopCall
    \/ ListenerRead
    \/ Subscribe
    \/ TaskTake
    \/ TaskBody

\* The client from NewClient on, under calls of Start and Stop
SpecLife == InitLife /\ [][NextLife]_vars

\* The client fed by the serial listener
Spec == Init /\ [][Next]_vars

\* one iteration step of the processPackets goroutine
Consumer ==
    \/ Receive
    \/ UpdateStatistics
    \/ UpdateNodeDB
    \/ Dispatch

\* the serial listener reads one of a few text chunks
Feed == \E c \in BurstChunks : SerialRead(c, MaxQueued)

NextLive ==
    \/ Feed
    \/ Subscribe
    \/ Receive
    \/ UpdateStatistics
    \/ UpdateNodeDB
    \/ Dispatch
    \/ OnPacket

\* The client with the processPackets goroutine scheduled whenever it can
\* run.  Nothing is assumed of the goroutines that run OnPacket, which may
\* never return, nor of the listener and the callers of Subscribe
SpecLive == Init /\ [][NextLive]_vars /\ WF_vars(Consumer)

NextQueue ==
    \/ Burst
    \/ Receive
    \/ UpdateStatistics
    \/ UpdateNodeDB
    \/ Dispatch

\* The channel under a burst of submits, no subscriber registered
SpecQueue == Init /\ [][NextQueue]_vars

NextStats ==
    \/ StatsBurst
    \/ Receive
    \/ UpdateStatistics
    \/ UpdateNodeDB
    \/ Dispatch

\* The aggregator under a burst of packets of two types and channels
SpecStats == Init /\ [][NextStats]_vars

NextSignal ==
    \/ SignalSubmit
    \/ Receive
    \/ UpdateStatistics
    \/ UpdateNodeDB
    \/ Dispatch

\* The aggregator fed packets with signal readings
SpecSignal == Init /\ [][NextSignal]_vars

NextVarint ==
    \/ VarintEncode
    \/ VarintDecode

\* A value written by the varint encoder and read back by the decoders
SpecVarint == InitVarint /\ [][NextVarint]_vars

\* One call of the skip routines
SpecSkip == InitSkip /\ [][Skip]_vars

\* One handleRawData call, step by step
SpecDecode == InitDecode /\ [][WalkStep]_vars

\* One handleRawData call on a JSON document
SpecJSON == InitJSON /\ [][WalkStep]_vars

\* One handleRawData call on a legacy packet whose payload begins with 0x0D
SpecTag == InitTag /\ [][WalkStep]_vars

NextSnapshot ==
    \/ RecordPacket
    \/ TakeSnapshot
    \/ WriteSnapshot

\* The statistics, recorded by the consumer and read by GetStatistics
SpecSnapshot == InitSnapshot /\ [][NextSnapshot]_vars

\* TruncateForDisplay called directly
SpecTruncate == InitTruncate /\ [][Truncate]_vars

\* The TCP stream reader fed well-formed frames
SpecFrames == InitFrames /\ [][FeedByte]_vars

\* The fan-out to subscribers that register while a full channel is drained
\* and further chunks arrive
SpecFan == InitFull /\ [][NextFan]_vars

\* the serial listener reads a text chunk or a malformed envelope
FeedAny == \E c \in {TextChunk, PanicChunk} : SerialRead(c, MaxQueued)

NextFair ==
    \/ FeedAny
    \/ Subscribe
    \/ Receive
    \/ UpdateStatistics
    \/ UpdateNodeDB
    \/ Dispatch
    \/ OnPacket

\* The client with a fairly scheduled processPackets goroutine and a
\* listener that may read malformed chunks
SpecFair == Init /\ [][NextFair]_vars /\ WF_vars(Consumer)

\* One handleRawData call on a legacy packet whose type is inferred
SpecInfer == InitInfer /\ [][WalkStep]_vars

\* One handleRawData call on an envelope with fields of several variants
SpecVariants == InitVariants /\ [][WalkStep]_vars

\* One handleRawData call on a mesh packet with a two-byte tag
SpecTwoByte == InitTwoByte /\ [][WalkStep]_vars

\* One handleRawData call on a message with an unknown field
SpecUnknown == InitUnknown /\ [][WalkStep]_vars

\* One handleRawData call on a message that ends in a bad field
SpecPartial == InitPartial /\ [][WalkStep]_vars

\* One resolution of a port number
SpecPort == InitPort /\ [][Resolve]_vars

NextNodeDB ==
    \/ UpdateUser
    \/ ResolveNames

\* The node directory, written and read directly
SpecNodeDB == Init /\ [][NextNodeDB]_vars

\* The TCP stream reader feeding the client, nobody consuming
SpecSync == Init /\ [][ReadByte]_vars

-----------------------------------------------------------------------------
(* Properties *)

\* C1 (backpressure): the channel never holds more than 100 packets; every
\* handleRawData call returns to its transport, whatever the consumer has
\* or has not done; a packet offered while the channel holds 100 is
\* dropped, the channel left as it was
C1_Backpressure ==
    [][ /\ Len(packets) <= QueueCapacity
        /\ Len(packets') <= QueueCapacity
        /\ (nsub' # nsub => tpc' = "run")
        /\ (offered' # offered /\ Len(packets) = QueueCapacity
               => packets' = packets /\ dropped' = dropped + (offered' - offered)) ]_vars

\* a submit has returned after its packet was dropped at a full channel
C1_Witness == Len(packets) = QueueCapacity /\ dropped > 0 /\ tpc = "run"

\* C2 (immutable after being queued): across every step, a packet that is in
\* the channel or in the consumer's hands reads as it did before the step,
\* in all of its fields and in the bytes of Raw and Payload
C2_Immutable ==
    [][ /\ \A i \in 1..Len(packets) : \A j \in 1..Len(packets') :
              packets[i].sn = packets'[j].sn
                  => View(heap', packets'[j]) = View(heap, packets[i])
        /\ \A i \in 1..Len(packets) :
              cur'.sn = packets[i].sn => View(heap', cur') = View(heap, packets[i])
        /\ (cur.sn # 0 /\ cur'.sn = cur.sn => View(heap', cur') = View(heap, cur)) ]_vars

\* a queued packet whose Raw no longer reads as the chunk it was built from
C2_Witness ==
    \E i \in 1..Len(packets) :
        /\ packets[i].rawRef.arr = 0
        /\ View(heap, packets[i]).Raw = <<32, 105>>
        /\ packets[i].p.DecodedData = TextDataOf(TextChunk)

\* the bytes of s after the first k
Cut(s, k) == SubSeq(s, k + 1, Len(s))

\* s is one well-formed frame: preamble, big-endian length L <= 512, L bytes
IsFrame(s) ==
    /\ Len(s) >= HEADER_LEN
    /\ s[1] = START1 /\ s[2] = START2
    /\ s[3] * 256 + s[4] <= MAX_TO_FROM_RADIO_SIZE
    /\ Len(s) = HEADER_LEN + s[3] * 256 + s[4]

\* s holds no preamble / no first preamble byte
NoPreamble(s) == \A i \in 1..(Len(s) - 1) : ~(s[i] = START1 /\ s[i + 1] = START2)
NoSync1(s) == \A i \in 1..Len(s) : s[i] # START1

\* the frame that ends the stream is the only payload handed over so far
OnlyLastFrame(k) ==
    frames = <<[payload |-> Cut(stream, k + HEADER_LEN), at |-> Len(stream)]>>

OversizedHeader(s) ==
    /\ Len(s) >= HEADER_LEN
    /\ s[1] = START1 /\ s[2] = START2
    /\ s[3] * 256 + s[4] > MAX_TO_FROM_RADIO_SIZE

DeclaredLen == LET buf == Deref(heap, [arr |-> rxBuf.arr, lo |-> 0, hi |-> rxBuf.len])
               IN  buf[3] * 256 + buf[4]

\* C5 (payload is what the header declared): every payload handed to the
\* handler has the length L that the two length bytes of its header give,
\* big-endian, with 0 <= L <= 512, the header being the preamble and those
\* two bytes right before it in the stream, and is the L bytes read after
\* that header; and no payload is being collected under a header that
\* declares more than 512 bytes or fewer than are already there
C5_PayloadAsDeclared ==
    /\ \A i \in 1..Len(frames) :
          LET L == Len(frames[i].payload)
              h == frames[i].at - L - HEADER_LEN
          IN  /\ 0 <= L /\ L <= MAX_TO_FROM_RADIO_SIZE
              /\ h >= 0
              /\ stream[h + 1] = START1 /\ stream[h + 2] = START2
              /\ stream[h + 3] * 256 + stream[h + 4] = L
              /\ frames[i].payload = SubSeq(stream, h + HEADER_LEN + 1, frames[i].at)
    /\ rxBuf.len >= HEADER_LEN =>
          /\ DeclaredLen <= MAX_TO_FROM_RADIO_SIZE
          /\ rxBuf.len < HEADER_LEN + DeclaredLen

\* a payload of two different bytes handed over, its header not at the
\* start of the stream
C5_Witness ==
    /\ Len(frames) = 1
    /\ frames[1].at = Len(stream)
    /\ Len(stream) > HEADER_LEN + 2
    /\ Len(frames[1].payload) = 2
    /\ frames[1].payload[1] # frames[1].payload[2]

\* a header declaring exactly 512 bytes has been accepted
C5_WitnessMax == rxBuf.len > HEADER_LEN /\ DeclaredLen = MAX_TO_FROM_RADIO_SIZE

\* an interpreter loop has gone through one iteration and is about to go
\* through the next, in the same activation
SameLoop ==
    /\ m.st = "run" /\ m'.st = "run"
    /\ m.stack # <<>> /\ Len(m'.stack) = Len(m.stack)
    /\ Top(m).fn \in LoopFns /\ Top(m').fn = Top(m).fn
    /\ Top(m).wait = "" /\ Top(m').wait = ""

\* C6 (every decode walk is finite): every iteration of an interpreter loop
\* leaves the offset of its activation strictly greater than it found it
C6_OffsetAdvances ==
    [][ SameLoop => Top(m').off > Top(m).off ]_vars

\* an interpreter loop is at a state its next iteration leaves unchanged:
\* handleRawData never returns
C6_Witness ==
    /\ m.st = "run" /\ m.stack # <<>>
    /\ Top(m).fn \in LoopFns /\ Top(m).wait = ""
    /\ Step(m) = m

\* C7 (no decode error is fatal): no decode attempt indexes or slices
\* outside its buffer, so no handleRawData call ends in a panic
C7_NoPanic == m.st # "panic" /\ tpc # "crashed"

\* a declared length that is negative as an int has passed the bounds test
\* and the slice expression has panicked
C7_Witness ==
    /\ m.st = "panic" /\ tpc = "crashed"
    /\ m.B = <<18>> \o appendVarint(<<>>, NegWord(5))
    /\ m.out = <<>>

\* the order of the decode paths in handleRawData
PathOrder == <<"json", "envelope", "legacy", "text">>

\* C8 (decode path order): a decode path is begun only as the next of
\* JSON status, envelope, legacy binary, free text, only while no packet
\* has been offered, and, the first excepted, only when the path before it
\* has just returned an error; a packet is offered only by the path begun
\* last, and handleRawData returns with it
C8_PathOrder ==
    [][ /\ m'.tried # m.tried =>
              /\ Len(m.tried) < Len(PathOrder)
              /\ m'.tried = Append(m.tried, PathOrder[Len(m.tried) + 1])
              /\ m.out = <<>>
              /\ (m.tried # <<>> => m.rv.err)
        /\ m'.out # m.out =>
              /\ m.out = <<>> /\ Len(m'.out) = 1
              /\ m'.tried # <<>>
              /\ m'.out[1].path = m'.tried[Len(m'.tried)]
              /\ m'.st = "returned" /\ packets' = <<Entry(m'.out[1], [arr |-> 0, lo |-> 0, hi |-> Len(m.B)], m.B, 1)>> ]_vars

\* the JSON and the envelope path have failed and the legacy path has
\* produced the packet that is queued
C8_Witness ==
    /\ m.st = "returned"
    /\ m.tried = <<"json", "envelope", "legacy">>
    /\ Len(packets) = 1 /\ packets[1].p.path = "legacy"

\* C9 as stated (one packet per successful path): a handleRawData call
\* offers at most one packet, the channel grows by at most one, and a call
\* that has returned, one of the paths having accepted the chunk, has
\* offered exactly one
C9_OnePerSuccess ==
    /\ Len(m.out) <= 1 /\ offered = Len(m.out) /\ Len(packets) <= nsub
    /\ (m.st = "returned" => Len(m.out) = 1)

\* C9 (one packet per successful path), the blank chunk excepted: a
\* handleRawData call offers at most one packet and the channel grows by
\* at most one; a call that has returned has offered exactly one, unless
\* it came to the free-text path with a chunk that is empty or all white
\* space, and then it has offered none
C9_OneUnlessBlank ==
    /\ Len(m.out) <= 1 /\ offered = Len(m.out) /\ Len(packets) <= nsub
    /\ (m.st = "returned" =>
           IF m.tried[Len(m.tried)] = "text" /\ \A i \in 1..Len(m.B) : IsSpace(m.B[i])
           THEN m.out = <<>> /\ packets = <<>>
           ELSE Len(m.out) = 1 /\ Len(packets) = 1 /\ dropped = 0)

\* the envelope path has accepted a chunk and its one packet is queued
C9_Witness ==
    /\ m.st = "returned"
    /\ m.tried = <<"json", "envelope">>
    /\ Len(m.out) = 1 /\ Len(packets) = 1 /\ offered = 1
    /\ packets[1].p.Type = "NODE_INFO"

\* the packet carries identity information
CarriesIdentity(p) ==
    /\ p.Type = "NODE_INFO"
    /\ p.DecodedData.kind \in {"NodeInfo", "UserData"}
    /\ (p.DecodedData.id # <<>> \/ p.DecodedData.long # <<>> \/ p.DecodedData.short # <<>>)

\* the node the identity information of p is about: the one its id string
\* names, else the sender
NodeOf(p) ==
    IF p.DecodedData.id # <<>> /\ parseNodeID(p.DecodedData.id).ok
    THEN parseNodeID(p.DecodedData.id).id ELSE p.From

\* the directory holds the identity information of p
Reflects(db, p) ==
    /\ NodeOf(p) \in DOMAIN db
    /\ db[NodeOf(p)] = [ID |-> p.DecodedData.id, LongName |-> p.DecodedData.long,
                         ShortName |-> p.DecodedData.short]

\* C10 (statistics, then directory, then dispatch): the statistics and
\* the directory update of a packet have been made when it is dispatched
\* and whenever OnPacket is started or has run for it; at its dispatch the
\* statistics count it and the directory holds its identity information
C10_UpdatedBeforeDispatch ==
    /\ \A g \in pending \cup delivered :
          stats.TotalPackets >= g.sn /\ dbDone >= g.sn
    /\ cpc = "dispatch" =>
          /\ stats.TotalPackets = cur.sn /\ dbDone = cur.sn
          /\ (CarriesIdentity(cur.p) => Reflects(nodeDB, cur.p))

\* OnPacket has run for a packet with a user's names, and the directory
\* has no record of the node
C10_Witness ==
    /\ [sub |-> 1, sn |-> cur.sn] \in delivered
    /\ CarriesIdentity(cur.p)
    /\ stats.TotalPackets >= cur.sn /\ dbDone >= cur.sn
    /\ NodeOf(cur.p) \notin DOMAIN nodeDB

\* the sum of the counts of a Go map
RECURSIVE Total(_)
Total(f) ==
    IF DOMAIN f = {} THEN 0
    ELSE LET x == CHOOSE y \in DOMAIN f : TRUE
         IN  f[x] + Total([y \in DOMAIN f \ {x} |-> f[y]])

\* packets the consumer has taken off the channel
Dequeued == offered - dropped - Len(packets)

\* C11 as stated: in every state a statistics snapshot shows per-type and
\* per-channel counts that each sum to total_packets, and total_packets is
\* the number of packets the consumer has dequeued.
C11_CountsDequeued ==
    LET s == GetStatistics(stats)
    IN  /\ Total(s.PacketsByType) = s.TotalPackets
        /\ Total(s.PacketsByChannel) = s.TotalPackets
        /\ s.TotalPackets = Dequeued

\* C11, amended: the per-type and per-channel counts of a snapshot each sum
\* to total_packets, and total_packets is the number of dequeued packets
\* the aggregator has recorded: the number dequeued, less the one packet
\* the consumer has taken and not yet recorded.  Dropped packets never
\* count.
C11_CountsRecorded ==
    LET s == GetStatistics(stats)
    IN  /\ Total(s.PacketsByType) = s.TotalPackets
        /\ Total(s.PacketsByChannel) = s.TotalPackets
        /\ s.TotalPackets = Dequeued - (IF cpc = "stats" THEN 1 ELSE 0)
        /\ s.TotalPackets + Len(packets) + dropped <= offered

\* packets of two types on two channels have been recorded after some
\* packets were dropped
C11_Witness ==
    /\ dropped > 0
    /\ Cardinality(DOMAIN stats.PacketsByType) >= 2
    /\ Cardinality(DOMAIN stats.PacketsByChannel) >= 2
    /\ stats.TotalPackets >= 3
    /\ cpc = "recv"

\* a finite float32 value in units of 1/256
Scaled(f) == F32Scale(f.n, 8 - f.e)

\* the averaging rule on one sample, all values in units of 1/256
Averaged(old, sample, new) ==
    IF sample = 0 THEN new = old
    ELSE IF old = 0 THEN new = sample
    ELSE 2 * new = old + sample

\* C12: whenever the aggregator records a packet, for RSSI and SNR
\* independently, a zero sample leaves the running average unchanged, a
\* non-zero sample sets it to the sample when it was zero and to
\* (previous average + sample) / 2 otherwise; from zero, RSSI -80 gives
\* -80, and -90 recorded on -80 gives -85.
C12_Averaging ==
    [][ stats' # stats =>
          /\ Averaged(Scaled(stats.AverageRSSI), 256 * Int32Of(cur.p.RxRSSI),
                      Scaled(stats'.AverageRSSI))
          /\ Averaged(Scaled(stats.AverageSNR), Scaled(Float32frombits(cur.p.RxSNR)),
                      Scaled(stats'.AverageSNR))
          /\ (stats.AverageRSSI = F32Zero /\ Int32Of(cur.p.RxRSSI) = -80
                 => Scaled(stats'.AverageRSSI) = 256 * (-80))
          /\ (Scaled(stats.AverageRSSI) = 256 * (-80) /\ Int32Of(cur.p.RxRSSI) = -90
                 => Scaled(stats'.AverageRSSI) = 256 * (-85)) ]_vars

\* RSSI -80 and then -90 have been recorded: the average is -85, and the
\* SNR average of 5.5 and -3.25 is 1.125
C12_Witness ==
    /\ stats.TotalPackets = 2
    /\ Scaled(stats.AverageRSSI) = 256 * (-85)
    /\ Scaled(stats.AverageSNR) = 288

\* C13: a 64-bit value appended to a buffer by the varint encoder is read
\* back, by either decoder, at the offset where its bytes begin: the
\* decoder returns the value and the offset just past the encoded bytes,
\* whatever precedes and follows them.
C13_RoundTrip ==
    probe.op = "decoded" =>
        /\ SubSeq(probe.enc, 1, Len(probe.pre)) = probe.pre
        /\ Len(probe.enc) > Len(probe.pre)
        /\ probe.at = <<probe.v, Len(probe.enc)>>
        /\ probe.pos = <<probe.v, Len(probe.enc)>>

\* 2^35 has been written after one byte and read back from six bytes, and
\* so has 2^64 - 1 from ten
C13_Witness ==
    /\ probe.op = "decoded"
    /\ probe.pre = <<8>>
    /\ probe.suf = <<255>>
    /\ \/ probe.v = <<0, 0, 0, 0, 0, 1, 0, 0, 0, 0>> /\ probe.at[2] = 7
       \/ probe.v = NegWord(1) /\ probe.at[2] = 11

\* C14: a skip never returns an offset beyond the end of the buffer: either
\* routine returns the failure value -1 or an offset between the start
\* offset and the length of the buffer, and it returns -1 for a wire type
\* other than varint, fixed64, length-delimited and fixed32.
C14_FailsPastEnd ==
    probe.op = "skipped" =>
        \A r \in {probe.at, probe.pos} :
            /\ r = -1 \/ (probe.offset <= r /\ r <= Len(probe.data))
            /\ (probe.wireType \notin {0, 1, 2, 5} => r = -1)

\* a fixed64 skipped in a 3-byte buffer, or a fixed32 in an empty one, or a
\* length-delimited field that declares 100 bytes where 2 follow
C14_Witness ==
    /\ probe.op = "skipped"
    /\ probe.at = probe.pos
    /\ \/ probe.wireType = 1 /\ probe.data = <<1, 2, 3>> /\ probe.at = probe.offset + 8
       \/ probe.wireType = 5 /\ probe.data = <<>> /\ probe.at = probe.offset + 4
       \/ probe.wireType = 2 /\ probe.data = <<100, 8, 42>> /\ probe.at = 101

\* the known field of the message of `probe` came out with the value it
\* was written with: the packet has the type of the port, or the decoded
\* hardware message has the mask
KnownDecoded ==
    /\ Len(m.out) = 1
    /\ m.out[1].path = "envelope"
    /\ IF probe.in = "Data"
       THEN m.out[1].Type = PortNumToPacketType(probe.known)
       ELSE /\ m.out[1].DecodedData.kind = "RemoteHardware"
            /\ m.out[1].DecodedData.mask = probe.known

C16_PartialKept ==
    m.st = "returned" =>
        /\ m.tried = <<"json", "envelope">>
        /\ Len(m.out) = 1
        /\ m.out[1].path = "envelope"
        /\ m.out[1].From = W(7)
        /\ m.out[1].Channel = 1

\* the envelope interpreter has failed on the field after the mesh packet,
\* and the chunk has come out of the free-text path without sender or
\* channel
C16_Witness ==
    /\ m.st = "returned"
    /\ probe.level = "FromRadio"
    /\ m.tried = <<"json", "envelope", "legacy", "text">>
    /\ Len(m.out) = 1
    /\ m.out[1].path = "text"
    /\ m.out[1].From = Zero64
    /\ m.out[1].Channel = 0

\* the names of the packet types (PacketTypeNames)
PacketTypes ==
    {"UNKNOWN", "TEXT", "POSITION", "NODE_INFO", "TELEMETRY", "ROUTING", "ADMIN",
     "RANGE_TEST", "DETECTION_SENSOR", "NEIGHBOR_INFO", "REMOTE_HARDWARE",
     "REPLY_APP", "IP_TUNNEL_APP", "SERIAL_APP", "STORE_FORWARD_APP", "ZPS_APP",
     "SIMULATOR_APP", "TRACEROUTE_APP"}

\* the ports the table has an entry for
TablePorts ==
    {W(n) : n \in (0..12) \cup {32, 33, 34} \cup (64..71) \cup {224, 256}}

\* C17: every port number resolves to a packet type; port 4 resolves to
\* the node-identity type, and a port the table has no entry for (such as
\* 99999) resolves to Unknown.
C17_PortTotal ==
    probe.op = "resolved" =>
        /\ probe.Type \in PacketTypes
        /\ (probe.portnum = W(4) => probe.Type = "NODE_INFO")
        /\ (probe.portnum \notin TablePorts => probe.Type = "UNKNOWN")

\* port 99999 has been resolved, to Unknown
C17_Witness ==
    probe.op = "resolved" /\ probe.portnum = W(99999) /\ probe.Type = "UNKNOWN"


\* "!%08x" of the node ids looked up, written out
HexName(n) ==
    IF n = Zero64 THEN <<33, 48, 48, 48, 48, 48, 48, 48, 48>>
    ELSE IF n = W(42) THEN <<33, 48, 48, 48, 48, 48, 48, 50, 97>>
    ELSE <<33, 97, 98, 99, 100, 101, 102, 49, 50>>

\* C18 as stated: the name of a node is its long name when that is not empty,
\* else its short name when that is not empty, else its id string when that
\* is not empty, else "!" and the id as eight lower-case hex digits; a node
\* without a record gets the hex form
C18_NameAsStored ==
    probe.op = "names" =>
        probe.name =
            IF probe.node \notin DOMAIN nodeDB THEN HexName(probe.node)
            ELSE IF nodeDB[probe.node].LongName # <<>> THEN nodeDB[probe.node].LongName
            ELSE IF nodeDB[probe.node].ShortName # <<>> THEN nodeDB[probe.node].ShortName
            ELSE IF nodeDB[probe.node].ID # <<>> THEN nodeDB[probe.node].ID
            ELSE HexName(probe.node)

\* C18: the name of a node is its long name, sanitized for the terminal,
\* when the stored long name is not empty, else its short name, sanitized,
\* when the stored short name is not empty, else its id string as stored when
\* that is not empty, else "!" and the id as eight lower-case hex digits; a
\* node without a record gets the hex form
C18_NameSanitized ==
    probe.op = "names" =>
        probe.name =
            IF probe.node \notin DOMAIN nodeDB THEN HexName(probe.node)
            ELSE IF nodeDB[probe.node].LongName # <<>>
                 THEN SanitizeForTerminal(nodeDB[probe.node].LongName)
            ELSE IF nodeDB[probe.node].ShortName # <<>>
                 THEN SanitizeForTerminal(nodeDB[probe.node].ShortName)
            ELSE IF nodeDB[probe.node].ID # <<>> THEN nodeDB[probe.node].ID
            ELSE HexName(probe.node)

\* a stored long name with a tab inside and a space at each end, next to a
\* short name and an id string, was resolved to "Longname!x"
C18_Witness ==
    /\ probe.op = "names"
    /\ probe.node \in DOMAIN nodeDB
    /\ Len(nodeDB[probe.node].LongName) = 13
    /\ nodeDB[probe.node].ShortName # <<>>
    /\ nodeDB[probe.node].ID # <<>>
    /\ probe.name = <<76, 111, 110, 103, 110, 97, 109, 101, 33, 120>>

\* the first n characters of a string
Truncated(str, n) == IF Len(str) <= n THEN str ELSE SubSeq(str, 1, n)

C20_LastWriteWins ==
    probe.op = "update" =>
        /\ DOMAIN nodeDB = DOMAIN probe.before \cup {probe.node}
        /\ nodeDB[probe.node] = [ID |-> probe.id, LongName |-> probe.long,
                                 ShortName |-> probe.short]
        /\ \A n \in DOMAIN probe.before \ {probe.node} : nodeDB[n] = probe.before[n]

\* a record with three non-empty fields was overwritten by an update with
\* three empty ones, next to the record of another node
C20_Witness ==
    /\ probe.op = "update"
    /\ probe.node \in DOMAIN probe.before
    /\ probe.before[probe.node].ID # <<>>
    /\ probe.before[probe.node].LongName # <<>>
    /\ probe.before[probe.node].ShortName # <<>>
    /\ probe.id = <<>> /\ probe.long = <<>> /\ probe.short = <<>>
    /\ nodeDB[probe.node].LongName = <<>>
    /\ Cardinality(DOMAIN nodeDB) = 2


\* the name the identity information of p gives its node
DecodedName(p) ==
    IF p.DecodedData.long # <<>> THEN p.DecodedData.long
    ELSE IF p.DecodedData.short # <<>> THEN p.DecodedData.short
    ELSE p.DecodedData.id

\* C21 (identity packets reach the directory): when the consumer has made
\* the directory step of a packet that carries identity information, as an
\* envelope node record or as application data on port 4, the directory
\* holds a record of that node with the packet's names, and the name of
\* the node resolves to the decoded name
C21_IdentityStored ==
    [][(cpc = "nodedb" /\ cpc' = "dispatch" /\ CarriesIdentity(cur.p)) =>
          /\ Reflects(nodeDB', cur.p)
          /\ GetNodeName(nodeDB', NodeOf(cur.p)) = DecodedName(cur.p)]_vars

\* the consumer has made the directory step of a port-4 packet with a long
\* name; the directory has no record of the sender and the name resolves to
\* the hex form
C21_Witness ==
    /\ cpc = "dispatch"
    /\ dbDone = cur.sn
    /\ cur.p.Type = "NODE_INFO"
    /\ cur.p.DecodedData.kind = "UserData"
    /\ cur.p.DecodedData.long # <<>>
    /\ NodeOf(cur.p) \notin DOMAIN nodeDB
    /\ GetNodeName(nodeDB, NodeOf(cur.p)) = FormatNodeID(cur.p.From)


\* the decoded data of p is absent (nil, or a nil pointer of some type)
NoDecodedData(p) ==
    p.DecodedData.kind \in {"nil", "nilPosition", "nilTelemetry", "nilUserData",
                            "nilRemoteHardware"}

\* the decoded data of p, when there is any, is of the variant of its
\* type, and a packet of type UNKNOWN has none
Consistent(p) ==
    \/ NoDecodedData(p)
    \/ p.Type = "TEXT" /\ p.DecodedData.kind = "Text"
    \/ p.Type = "POSITION" /\ p.DecodedData.kind = "Position"
    \/ p.Type = "TELEMETRY" /\ p.DecodedData.kind = "Telemetry"
    \/ p.Type = "NODE_INFO" /\ p.DecodedData.kind \in {"NodeInfo", "UserData"}
    \/ p.Type = "REMOTE_HARDWARE" /\ p.DecodedData.kind = "RemoteHardware"
    \/ p.Type \notin {"TEXT", "POSITION", "TELEMETRY", "NODE_INFO",
                      "REMOTE_HARDWARE", "UNKNOWN"}

\* C22 (decoded data agrees with the type): every queued packet has
\* decoded data of the variant of its type, and none when its type is
\* UNKNOWN
C22_DataMatchesType ==
    \A i \in 1..Len(packets) : Consistent(packets[i].p)

\* the free-text path has queued a packet of type POSITION whose decoded
\* data is the text "gps"
C22_Witness ==
    /\ m.st = "returned"
    /\ m.tried = <<"json", "envelope", "legacy", "text">>
    /\ Len(packets) = 1
    /\ packets[1].p.path = "text"
    /\ packets[1].p.Type = "POSITION"
    /\ packets[1].p.DecodedData = TextDataOf(GpsText)


\* the documents whose "type" is "device_status", and those of them whose
\* "device_info" is an object
StatusTyped == {JsonChunk(p) : p \in {q \in JsonParams : q.type = "status"}}
StatusWithInfo ==
    {JsonChunk(p) : p \in {q \in JsonParams : q.type = "status" /\ q.info = "object"}}

\* the call goes no further than the JSON path, and returns having queued
\* one packet of that path: type TELEMETRY, telemetry data, to broadcast
ClassifiedByJSON ==
    /\ m.tried \in {<<>>, <<"json">>}
    /\ m.st # "run" =>
          /\ m.st = "returned"
          /\ m.tried = <<"json">>
          /\ Len(m.out) = 1
          /\ m.out[1].path = "json"
          /\ m.out[1].Type = "TELEMETRY"
          /\ m.out[1].DecodedData.kind = "Telemetry"
          /\ m.out[1].To = Broadcast

\* C23 as stated: every chunk that is a JSON object whose "type" is
\* "device_status" is made a TELEMETRY packet by the JSON path and reaches
\* no other path
C23_AnyStatusDocument == m.B \in StatusTyped => ClassifiedByJSON

\* C23: every chunk that is a JSON object whose "type" is "device_status"
\* and whose "device_info" is an object is made a TELEMETRY packet
\* (telemetry data, to broadcast) by the JSON path and reaches no other path
C23_StatusWithInfo == m.B \in StatusWithInfo => ClassifiedByJSON

\* a status document with a timestamp, its device_info before its type and
\* a line feed after it has been queued as a TELEMETRY packet received at
\* second 5
C23_Witness ==
    /\ m.B = JsonChunk([type |-> "status", info |-> "object", stamp |-> TRUE,
                        infoFirst |-> TRUE, tail |-> <<10>>])
    /\ m.st = "returned"
    /\ m.tried = <<"json">>
    /\ Len(packets) = 1
    /\ packets[1].p.Type = "TELEMETRY"
    /\ packets[1].p.RxTime.unix = W(5)


\* the call has returned having queued one packet of the legacy path
LegacyQueued ==
    /\ m.st = "returned"
    /\ Len(m.out) = 1
    /\ m.out[1].path = "legacy"

TagPayload == SubSeq(m.B, 17, Len(m.B))

\* the payloads in which a non-empty id, long_name or short_name field is
\* followed by a byte that is no field, so that they are no well-formed
\* message
NamedTails ==
    {<<0, 0, 0, 0, 18, 2, 65, 108, 255>>, <<0, 0, 0, 0, 10, 1, 65, 7>>,
     <<0, 0, 0, 0, 26, 1, 83, 255>>}

C25_DeepCopy ==
    probe.op = "stats" =>
        /\ StatsAt(probe.h, probe.agg) = probe.aggIs
        /\ \A i \in 1..Len(probe.snaps) :
              StatsAt(probe.h, probe.snaps[i].s) = probe.snaps[i].is

\* a snapshot taken after the first packet still shows one packet after
\* two more were recorded, next to a second snapshot one of whose maps
\* was written to
C25_Witness ==
    /\ probe.op = "stats"
    /\ Len(probe.snaps) = 2
    /\ probe.agg.TotalPackets = 3
    /\ probe.writes >= 1
    /\ StatsAt(probe.h, probe.snaps[1].s).TotalPackets = 1
    /\ Total(StatsAt(probe.h, probe.snaps[1].s).PacketsByType) = 1
    /\ Total(probe.h[probe.agg.PacketsByType]) = 3
    /\ Total(StatsAt(probe.h, probe.snaps[2].s).PacketsByType) >= 99


\* C26 (one writer): the node directory changes only in the consumer's
\* directory step and the statistics only in its statistics step; no
\* step of a transport task that runs handleRawData changes either
C26_OneWriter ==
    [][/\ nodeDB' # nodeDB => (cpc = "nodedb" /\ cpc' = "dispatch")
       /\ stats' # stats => (cpc = "stats" /\ cpc' = "nodedb")]_vars

\* the directory holds the record of node 0x2b that the serial listener
\* wrote while handling "owner !0000002b"; the consumer has made no
\* directory step
C26_Witness ==
    /\ dbDone = 0
    /\ cpc = "recv"
    /\ cur = NoEntry
    /\ W(43) \in DOMAIN nodeDB
    /\ nodeDB[W(43)].LongName = <<33, 48, 48, 48, 48, 48, 48, 50, 98>>
    /\ nodeDB[W(43)].ID = <<33, 48, 48, 48, 48, 48, 48, 50, 98>>


\* C27 (truncation for display): TruncateForDisplay(s, maxWidth) is the
\* empty string when maxWidth <= 0; otherwise it has at most maxWidth
\* characters and is the sanitized s when that fits, its first maxWidth
\* characters when maxWidth <= 3, and its first maxWidth - 3 characters
\* followed by "..." otherwise
C27_Truncated ==
    probe.op = "truncated" =>
        LET w == probe.maxWidth
            r == probe.result
            t == SanitizeForTerminal(probe.s)
        IN  IF w <= 0 THEN r = <<>>
            ELSE /\ Len(r) <= w
                 /\ Len(t) <= w => r = t
                 /\ (Len(t) > w /\ w <= 3) => r = Truncated(t, w)
                 /\ (Len(t) > w /\ w > 3) => r = Truncated(t, w - 3) \o <<46, 46, 46>>

\* "VeryLongUsername" shown in 8 columns is "VeryL..."
C27_Witness ==
    /\ probe.op = "truncated"
    /\ Len(probe.s) = 16
    /\ probe.maxWidth = 8
    /\ probe.result = <<86, 101, 114, 121, 76, 46, 46, 46>>


\* the byte read by the step
LastRead == stream'[Len(stream')]

\* C28 (preamble mismatch): a byte other than 0x94 read with an empty
\* buffer, or other than 0xC3 read with one byte buffered, leaves the
\* buffer empty (the byte itself not kept, also when it is 0x94), hands
\* no payload to the handler, queues nothing and stops no task
C28_MismatchResets ==
    [][(/\ Len(stream') = Len(stream) + 1
        /\ \/ rxBuf.len = 0 /\ LastRead # 148
           \/ rxBuf.len = 1 /\ LastRead # 195)
       => /\ rxBuf'.len = 0
          /\ frames' = frames
          /\ packets' = packets
          /\ offered' = offered
          /\ tpc' = "run"]_vars

\* after 94 94 C3 00 00 no payload has been handed over: the second 0x94
\* was dropped as a failed second preamble byte, so the C3 after it was
\* read with an empty buffer, and the two zero bytes too
C28_Witness ==
    /\ stream = <<148, 148, 195, 0, 0>>
    /\ rxBuf.len = 0
    /\ frames = <<>>
    /\ tpc = "run"


\* the number of bytes of the first k frames of a stream of frames
RECURSIVE EndOf(_, _)
EndOf(ps, k) == IF k = 0 THEN 0 ELSE EndOf(ps, k - 1) + 4 + Len(ps[k])

Queued(sn) == \E i \in 1..Len(packets) : packets[i].sn = sn

Dispatched(sn) ==
    /\ cpc = "recv"
    /\ cur # NoEntry
    /\ cur.sn = sn
    /\ stats.TotalPackets = dbDone
    /\ \A x \in subs : [sub |-> x, sn |-> sn] \in pending \cup delivered

C30_FireAndForget == \A sn \in 1..MaxQueued : Queued(sn) ~> Dispatched(sn)

\* two packets counted and dispatched to two subscribers, no OnPacket call
\* has returned
C30_Witness ==
    /\ delivered = {}
    /\ subs = {1, 2}
    /\ stats.TotalPackets = 2
    /\ cpc = "recv"
    /\ \E a, b \in 1..MaxQueued :
          /\ a < b
          /\ pending = {[sub |-> x, sn |-> n] : x \in subs, n \in {a, b}}

\* C31: the consumer takes each queued packet once, in the order of the
\* successful sends; a dispatch starts one OnPacket call for that packet per
\* subscriber registered at that moment and none else, each call runs once,
\* and no call is ever for a packet that was not queued
Inserted == offered - dropped

Taken == IF cpc \in {"stats", "nodedb"} THEN dbDone + 1 ELSE dbDone

FanOutSound ==
    /\ pending \cap delivered = {}
    /\ \A g \in pending \cup delivered : g.sn \in 1..Inserted /\ g.sn <= Taken
    /\ \A i \in 1..Len(packets) : packets[i].sn = Taken + i
    /\ Taken + Len(packets) = Inserted
    /\ cpc # "recv" => cur.sn = Taken

C31_ExactlyOnce ==
    [][/\ FanOutSound
       /\ FanOutSound'
       /\ (cpc = "recv" /\ cpc' = "stats") =>
             /\ cur' = Head(packets)
             /\ packets' = Tail(packets)
             /\ cur'.sn = dbDone + 1
       /\ (cpc = "dispatch" /\ cpc' = "recv") =>
             /\ pending' \ pending = {[sub |-> x, sn |-> cur.sn] : x \in subs}
             /\ \A g \in pending \cup delivered : g.sn # cur.sn
             /\ delivered' = delivered
       /\ ~(cpc = "dispatch" /\ cpc' = "recv") =>
             /\ pending' \subseteq pending
             /\ delivered' \ delivered = pending \ pending'
             /\ delivered \subseteq delivered'
             /\ Cardinality(pending \ pending') <= 1]_vars

\* a chunk was dropped on the full channel, a subscriber registered between
\* the dispatches of the first and the second packet, and every call has run
C31_Witness ==
    /\ dropped >= 1
    /\ subs = {1, 2}
    /\ pending = {}
    /\ delivered = {[sub |-> 1, sn |-> 1], [sub |-> 1, sn |-> 2],
                    [sub |-> 2, sn |-> 2]}
    /\ Inserted > QueueCapacity

\* C32: with the consumer scheduled fairly, every packet sent to the channel
\* is in time counted in the statistics and dispatched, and the consumer
\* waits only at the receive on an empty channel
Counted(sn) ==
    /\ stats.TotalPackets >= sn
    /\ dbDone > sn \/ (dbDone = sn /\ cpc = "recv")

WaitsOnlyOnEmpty ==
    tpc # "crashed" => (ENABLED Consumer \/ (cpc = "recv" /\ packets = <<>>))

C32_EventuallyCounted ==
    /\ []WaitsOnlyOnEmpty
    /\ \A sn \in 1..MaxQueued : Queued(sn) ~> Counted(sn)

\* the process has died in the listener with a packet still in the channel
C32_Witness ==
    /\ tpc = "crashed"
    /\ packets # <<>>
    /\ stats.TotalPackets < Inserted

\* the payloads of InferPayloads in which a structured decode as identity
\* finds a non-empty id, long_name or short_name
NamedPayloads == {<<18, 2, 65, 108>>, <<13, 0, 0, 0, 0, 18, 2, 65, 108>>}

\* the type the first tag byte among the first ten bytes stands for
TagType(p) ==
    LET hits == {i \in 1..Min(Len(p), 10) : p[i] \in {13, 10, 8, 16, 24, 18}}
        i == CHOOSE j \in hits : \A k \in hits : j <= k
    IN  IF hits = {} THEN ""
        ELSE CASE p[i] = 13 -> "POSITION"
               [] p[i] = 10 -> "TEXT"
               [] p[i] = 18 -> "NODE_INFO"
               [] OTHER -> "TELEMETRY"

\* the seven steps in their order, each with whether it succeeds on p and
\* the type it gives; `brace` is the success of the fifth step
StepsOf(p, brace) ==
    <<[ok |-> IsPositionMessage(p), type |-> "POSITION"],
      [ok |-> IsTelemetryMessage(p), type |-> "TELEMETRY"],
      [ok |-> p \in NamedPayloads, type |-> "NODE_INFO"],
      [ok |-> TagType(p) # "", type |-> TagType(p)],
      [ok |-> brace, type |-> "TEXT"],
      [ok |-> containsTelemetryKeywords(p) \/ containsPositionKeywords(p),
       type |-> IF containsTelemetryKeywords(p) THEN "TELEMETRY" ELSE "POSITION"],
      [ok |-> 10 * Cardinality({i \in 1..Len(p) : IsPrintable(p[i])}) > 7 * Len(p),
       type |-> "TEXT"]>>

\* the type given by the first step that succeeds, UNKNOWN if none does or
\* the payload is empty
FirstStepType(p, brace) ==
    LET s == StepsOf(p, brace)
        hits == {i \in 1..Len(s) : s[i].ok}
    IN  IF p = <<>> \/ hits = {} THEN "UNKNOWN"
        ELSE s[CHOOSE j \in hits : \A k \in hits : j <= k].type

C34_TextTyped ==
    \A i \in 1..Len(packets) :
        packets[i].p.path = "text" =>
            /\ packets[i].p.Type = "TEXT"
            /\ packets[i].p.DecodedData.kind = "Text"
            /\ packets[i].p.To = Broadcast

\* the text "owner !0000002b" has been queued by the free-text path as a
\* NODE_INFO packet from node 0x2b to the broadcast address, with the text
\* as its decoded data
C34_Witness ==
    /\ packets # <<>>
    /\ packets[1].p.path = "text"
    /\ packets[1].p.Type = "NODE_INFO"
    /\ packets[1].p.From = W(43)
    /\ packets[1].p.To = Broadcast
    /\ packets[1].p.DecodedData = TextDataOf(OwnerChunk)

\* what a variant determines of a packet
Determined(p) == <<p.Type, p.From, p.To, p.DecodedData>>

\* C35: the type, sender, addressee and decoded data of the packet made of
\* an envelope with fields of two variants are all those of the packet made
\* of one of the two fields alone
C35_OneVariant ==
    \A f, g \in VariantFields :
        (m.B = f \o g /\ m.st = "returned") =>
            /\ Len(m.out) = 1
            /\ m.out[1].path = "envelope"
            /\ Determined(m.out[1]) \in {Determined(PacketOf(f)), Determined(PacketOf(g))}

\* an envelope with a text packet from node 7 and then a config field has
\* been queued as an ADMIN packet from node 0 whose decoded data is the text
C35_Witness ==
    /\ m.st = "returned"
    /\ m.B = Wrap(18, <<8, 7>> \o Wrap(34, <<8, 1, 18, 2, 104, 105>>)) \o Wrap(42, <<8, 1>>)
    /\ Len(packets) = 1
    /\ packets[1].p.path = "envelope"
    /\ packets[1].p.Type = "ADMIN"
    /\ packets[1].p.From = Zero64
    /\ packets[1].p.DecodedData = TextDataOf(<<104, 105>>)
    /\ PacketOf(Wrap(42, <<8, 1>>)).DecodedData = NilData
    /\ PacketOf(Wrap(18, <<8, 7>> \o Wrap(34, <<8, 1, 18, 2, 104, 105>>))).Type = "TEXT"

\* C36: a mesh packet field with a two-byte tag (public_key, pki_encrypted)
\* is consumed as one field: the from, channel and decoded fields that
\* follow it come out as encoded
C36_FollowingDecoded ==
    \A t \in TwoByteFields, n \in Senders :
        (m.st # "run" /\ m.B = FollowedChunk(t, n)) =>
            /\ m.st = "returned"
            /\ Len(m.out) = 1
            /\ m.out[1].path = "envelope"
            /\ m.out[1].From = W(n)
            /\ m.out[1].Channel = 1
            /\ m.out[1].Type = "TEXT"
            /\ m.out[1].DecodedData = TextDataOf(TextChunk)

\* the mesh packet 88 01 01 08 07 18 01 22 06 08 01 12 02 68 69
\* (pki_encrypted: true, from: 7, channel: 1, text "hi") has been queued
\* with no sender, channel 0 and no type
C36_Witness ==
    /\ m.st = "returned"
    /\ m.B = FollowedChunk(<<136, 1, 1>>, 7)
    /\ Len(packets) = 1
    /\ packets[1].p.path = "envelope"
    /\ packets[1].p.From = Zero64
    /\ packets[1].p.Channel = 0
    /\ packets[1].p.Type = "UNKNOWN"

\* the bytes of c.rxBuf
RxBytes == Deref(heap, [arr |-> rxBuf.arr, lo |-> 0, hi |-> rxBuf.len])

\* C37: after every byte the receive buffer is empty or a proper prefix of
\* a frame: at most 515 bytes, the first 0x94, the second 0xC3, and from
\* four bytes on a declared length of at most 512 and fewer bytes than the
\* header and the declared length together
C37_ProperPrefix ==
    tpc = "run" =>
        LET buf == RxBytes
            declared == buf[3] * 256 + buf[4]
        IN  /\ Len(buf) = rxBuf.len
            /\ Len(buf) <= HEADER_LEN + MAX_TO_FROM_RADIO_SIZE - 1
            /\ Len(buf) >= 1 => buf[1] = START1
            /\ Len(buf) >= 2 => buf[2] = START2
            /\ Len(buf) >= HEADER_LEN =>
                  /\ declared <= MAX_TO_FROM_RADIO_SIZE
                  /\ Len(buf) < HEADER_LEN + declared

\* the header of a frame of 512 bytes and three bytes of it are buffered
C37_Witness ==
    /\ tpc = "run"
    /\ RxBytes = <<START1, START2, 2, 0, 0, 2, START1>>
    /\ frames = <<>>


\* C38: in no interleaving of Start, Stop and submit is a send attempted on
\* the queue once Stop has closed it (a chunk the listener delivers then is
\* discarded), and a started client never has a closed queue
C38_NoSendAfterClose ==
    /\ life.fault # "send"
    /\ life.started => ~life.closed

\* Stop has closed the queue, the listener has delivered one more chunk and
\* handleRawData has attempted the send
C38_Witness ==
    /\ life.fault = "send"
    /\ life.closed
    /\ life.last = "stop"
    /\ nsub >= 1

\* the consumer tasks that have not ended
LiveConsumers == {i \in 1..Len(life.consumers) : life.consumers[i].pc # "done"}

\* a step that is a call of Start or Stop
IsCall(name) == life'.calls = life.calls + 1 /\ life'.last = name

StartWhenStarted ==
    (life.started /\ IsCall("start")) =>
        /\ life'.ret = "error"
        /\ life'.listeners = life.listeners
        /\ life'.consumers = life.consumers
        /\ life'.started

StopWhenNotStarted ==
    (~life.started /\ IsCall("stop")) =>
        /\ life'.ret = "ok"
        /\ [life' EXCEPT !.calls = life.calls, !.last = life.last, !.ret = life.ret] = life
        /\ UNCHANGED <<packets, tpc, stats, nodeDB, subs, pending, nsub, dropped>>

\* C39: Start on a started client returns an error and launches no listener
\* or consumer, Stop on a client that is not started changes nothing, and at
\* most one consumer task is draining the queue at any time
C39_Lifecycle ==
    /\ [][StartWhenStarted /\ StopWhenNotStarted]_vars
    /\ [](Cardinality(LiveConsumers) <= 1)

\* after Start, Stop, Start two processPackets goroutines each hold a packet
\* taken from the queue
C39_Witness ==
    /\ Len(life.consumers) = 2
    /\ life.consumers[1].pc = "busy"
    /\ life.consumers[2].pc = "busy"
    /\ life.consumers[1].cur.sn # life.consumers[2].cur.sn

\* the serial numbers of the successful insertions that are no longer in the
\* queue nor in the hands of a processPackets goroutine
Processed ==
    (1..Inserted) \ ({packets[i].sn : i \in 1..Len(packets)}
                     \cup {life.consumers[i].cur.sn : i \in {j \in 1..Len(life.consumers) :
                                                              life.consumers[j].pc = "busy"}})

\* in SpecLife no packet is dropped and every read queues one packet, so the
\* k-th successful insertion is the packet read while the clock was k
ArrivalOf(sn) == [clock |-> sn, unix |-> Zero64]

\* C40: the packets counted in Statistics are a prefix of the sequence of
\* successful insertions, and last_packet_time is the rx_time of the last
\* packet of that prefix
C40_InsertionOrder ==
    /\ stats.TotalPackets = dbDone
    /\ Processed = 1..stats.TotalPackets
    /\ stats.TotalPackets > 0 => stats.LastPacketTime = ArrivalOf(stats.TotalPackets)

\* the second insertion has been counted while the first is still being
\* processed by the other goroutine
C40_Witness ==
    /\ stats.TotalPackets = 1
    /\ Processed = {2}
    /\ stats.LastPacketTime = ArrivalOf(2)
====
